---- MODULE Spec2Model ----
(***************************************************************************)
(* A model of the hft-engine hot path: the lock-free SPSC ring buffer      *)
(* (src/core/spsc.rs), the fixed-capacity order book (src/order_book.rs)   *)
(* and the four pinned pipeline stages (src/pipeline/*.rs, src/main.rs).   *)
(*                                                                         *)
(* SpecQueue         one producer and one consumer on one SpscQueue, every *)
(*                   load, slot access and store of push/pop its own step. *)
(* SpecLen           SpecQueue with a third thread calling len().          *)
(* SpecBook          any sequence of update_level calls on one OrderBook.  *)
(* SpecLevels        SpecBook without the unbounded reference book kept   *)
(*                   beside the OrderBook.                                 *)
(* SpecPipeline      main and the four stages on three queues.             *)
(* FairSpecPipeline  SpecPipeline with every stage thread scheduled fairly.*)
(* SpecCalls         one caller constructing an SpscQueue of any capacity   *)
(*                   and making any sequence of push and pop calls.        *)
(* SpecRisk          run_risk fed any signals, run_gateway draining it.    *)
(* SpecStrategy      run_strategy fed any events, run_risk and run_gateway  *)
(*                   behind it.                                            *)
(* SpecArith         a + b, a - b and a * b of any two Quantities.         *)
(* SpecTracker       two threads recording into one LatencyTracker, every  *)
(*                   atomic access of record its own step.                 *)
(***************************************************************************)
EXTENDS Integers, Sequences, FiniteSets, TLC

(***************************************************************************)
(* Bounds of the model.                                                    *)
(***************************************************************************)
\* Width in bits of the modelled usize: the counters wrap at 2^WordBits.
WordBits == 2
\* log2 of the capacity handed to SpscQueue::new (a power of two).
CapLog == 1
\* Number of push calls the producer thread of SpecQueue accepts.
MaxPush == 5
\* The producer of SpecQueue pushes values 1..MaxValue.
MaxValue == 2

\* messages.rs MAX_LEVELS (10 in the source), scaled down: the depth of a side.
MAX_LEVELS == 2

\* run_market_data stops after this many ticks (100_000 in the source), scaled down.
MaxTicks == 4
\* Number of signals the feeder of SpecRisk pushes into Q2.
MaxSignals == 3
\* Number of len() calls the observer thread of SpecLen makes.
MaxLenCalls == 1
\* Number of calls the caller of SpecCalls makes, the constructor included.
MaxCalls == 8
\* Number of events the feeder of SpecStrategy pushes into Q1.
MaxEvents == 4
\* The cycle counter read by run_risk advances at most this many times,
\* by CycleStep cycles each time.
MaxClockSteps == 2
CycleStep == 600000000

\* SpecArith: the whole part of a Quantity operand is within -MaxWhole..MaxWhole.
MaxWhole == 1
\* SpecTracker: each thread makes at most MaxRecords calls to record, with
\* cycle counts in 0 .. MaxCycles.
MaxRecords == 2
MaxCycles == 2

Word == 2 ^ WordBits
Capacity == 2 ^ CapLog
Values == 1 .. MaxValue

(***************************************************************************)
(* usize arithmetic (src/core/spsc.rs).                                    *)
(***************************************************************************)
\* An addition that does not wrap.
add_without_wrap(a, b) == a + b

wrapping_add(a, b) == (a + b) % Word

\* A subtraction that does not wrap.
sub_without_wrap(a, b) == a - b

wrapping_sub(a, b) == (a - b + Word) % Word

\* Bitwise and of two naturals.
RECURSIVE BitAnd(_, _)
BitAnd(a, b) ==
    IF a = 0 \/ b = 0 THEN 0
    ELSE (a % 2) * (b % 2) + 2 * BitAnd(a \div 2, b \div 2)

\* SpscQueue::new: mask = capacity - 1.
mask == Capacity - 1

\* get_unchecked(counter & self.mask), as a 1-based index into the buffer.
SlotIndex(counter) == BitAnd(counter, mask) + 1

\* A full test written with > for ==: the occupancy never exceeds the capacity
\* before the first overwrite, so the queue never reports full.
IsFull_gt(t, h) == wrapping_sub(t, h) > Capacity

\* push: tail.wrapping_sub(head) == self.buffer.len()
IsFull(t, h) == wrapping_sub(t, h) = Capacity

\* An empty test written with > for ==.
IsEmpty_gt(h, t) == h > t

\* pop: head == tail
IsEmpty(h, t) == h = t

\* len(): tail.wrapping_sub(head)
len(t, h) == wrapping_sub(t, h)

(***************************************************************************)
(* A slot is a MaybeUninit<T> cell.  T is wider than one machine word (the *)
(* messages are 64-byte records), so a slot is written and read in two     *)
(* halves; a value v is stored as lo = v, hi = v.  Uninit is the content   *)
(* of a cell that was never written.                                       *)
(***************************************************************************)
Uninit == 0

UninitSlot == [lo |-> Uninit, hi |-> Uninit]

(***************************************************************************)
(* The order book (src/order_book.rs, src/messages.rs).  Prices and        *)
(* quantities are the raw i64 of Price and Quantity.  Arrays are indexed   *)
(* from 0 as in the source.                                                *)
(***************************************************************************)
\* PriceLevel::new(price, qty)
PriceLevel_new(price, qty) == [price |-> price, qty |-> qty, order_count |-> 1]

\* PriceLevel::empty()
PriceLevel_empty == [price |-> 0, qty |-> 0, order_count |-> 0]

\* PriceLevel::is_empty
is_empty(level) == level.order_count = 0

\* OrderBook::new()
OrderBook_new ==
    [bids |-> [i \in 0 .. MAX_LEVELS - 1 |-> PriceLevel_empty],
     asks |-> [i \in 0 .. MAX_LEVELS - 1 |-> PriceLevel_empty],
     bid_depth |-> 0,
     ask_depth |-> 0]

\* find_bid_position: while pos < bid_depth && bids[pos].price > price { pos += 1 }
RECURSIVE find_bid_from(_, _, _)
find_bid_from(b, price, pos) ==
    IF pos < b.bid_depth /\ b.bids[pos].price > price
      THEN find_bid_from(b, price, pos + 1)
      ELSE pos

find_bid_position(b, price) == find_bid_from(b, price, 0)

\* find_ask_position: while pos < ask_depth && asks[pos].price < price { pos += 1 }
RECURSIVE find_ask_from(_, _, _)
find_ask_from(b, price, pos) ==
    IF pos < b.ask_depth /\ b.asks[pos].price < price
      THEN find_ask_from(b, price, pos + 1)
      ELSE pos

find_ask_position(b, price) == find_ask_from(b, price, 0)

\* for i in (pos..depth).rev() { levels[i + 1] = levels[i] }, from i downwards
RECURSIVE shift_right(_, _, _)
shift_right(levels, pos, i) ==
    IF i < pos THEN levels
    ELSE shift_right([levels EXCEPT ![i + 1] = levels[i]], pos, i - 1)

\* for i in pos..depth - 1 { levels[i] = levels[i + 1] }, from i upwards
RECURSIVE shift_left(_, _, _)
shift_left(levels, i, last) ==
    IF i >= last THEN levels
    ELSE shift_left([levels EXCEPT ![i] = levels[i + 1]], i + 1, last)

\* An insert_bid that drops every insert into a full side, also one that sorts
\* before a held level.
insert_bid_drop_when_full(b, pos, price, qty) ==
    IF b.bid_depth >= MAX_LEVELS THEN b
    ELSE LET moved == shift_right(b.bids, pos, b.bid_depth - 1)
         IN  [b EXCEPT !.bids = [moved EXCEPT ![pos] = PriceLevel_new(price, qty)],
                       !.bid_depth = b.bid_depth + 1]

\* insert_bid
insert_bid(b, pos, price, qty) ==
    IF b.bid_depth >= MAX_LEVELS /\ pos >= MAX_LEVELS THEN b
    ELSE LET depth == IF b.bid_depth >= MAX_LEVELS THEN MAX_LEVELS - 1
                      ELSE b.bid_depth
             moved == shift_right(b.bids, pos, depth - 1)
         IN  [b EXCEPT !.bids = [moved EXCEPT ![pos] = PriceLevel_new(price, qty)],
                       !.bid_depth = depth + 1]

\* An insert_ask that, on a full side, writes the new level over the worst slot
\* without moving any level.
insert_ask_replace_worst(b, pos, price, qty) ==
    IF b.ask_depth >= MAX_LEVELS /\ pos >= MAX_LEVELS THEN b
    ELSE IF b.ask_depth >= MAX_LEVELS
      THEN [b EXCEPT !.asks[MAX_LEVELS - 1] = PriceLevel_new(price, qty)]
      ELSE LET moved == shift_right(b.asks, pos, b.ask_depth - 1)
           IN  [b EXCEPT !.asks = [moved EXCEPT ![pos] = PriceLevel_new(price, qty)],
                         !.ask_depth = b.ask_depth + 1]

\* insert_ask
insert_ask(b, pos, price, qty) ==
    IF b.ask_depth >= MAX_LEVELS /\ pos >= MAX_LEVELS THEN b
    ELSE LET depth == IF b.ask_depth >= MAX_LEVELS THEN MAX_LEVELS - 1
                      ELSE b.ask_depth
             moved == shift_right(b.asks, pos, depth - 1)
         IN  [b EXCEPT !.asks = [moved EXCEPT ![pos] = PriceLevel_new(price, qty)],
                       !.ask_depth = depth + 1]

\* A remove_bid that empties the slot of the level and moves no other level.
remove_bid_no_shift(b, pos) ==
    [b EXCEPT !.bids[pos] = PriceLevel_empty, !.bid_depth = b.bid_depth - 1]

\* remove_bid
remove_bid(b, pos) ==
    LET moved == shift_left(b.bids, pos, b.bid_depth - 1)
    IN  [b EXCEPT !.bids = [moved EXCEPT ![b.bid_depth - 1] = PriceLevel_empty],
                  !.bid_depth = b.bid_depth - 1]

\* A remove_ask that leaves the vacated last slot as it was.
remove_ask_no_clear(b, pos) ==
    [b EXCEPT !.asks = shift_left(b.asks, pos, b.ask_depth - 1),
              !.ask_depth = b.ask_depth - 1]

\* remove_ask
remove_ask(b, pos) ==
    LET moved == shift_left(b.asks, pos, b.ask_depth - 1)
    IN  [b EXCEPT !.asks = [moved EXCEPT ![b.ask_depth - 1] = PriceLevel_empty],
                  !.ask_depth = b.ask_depth - 1]

\* An update_bid that takes the slot found by the scan for the level to update
\* without comparing its price.
update_bid_no_price_test(b, price, qty) ==
    LET pos == find_bid_position(b, price)
    IN  IF qty = 0
          THEN IF pos < b.bid_depth THEN remove_bid(b, pos) ELSE b
          ELSE insert_bid(b, pos, price, qty)

\* An update_bid that adds the quantity to the one a held level has instead of
\* replacing it.
update_bid_add_quantity(b, price, qty) ==
    LET pos == find_bid_position(b, price)
        found == pos < b.bid_depth /\ b.bids[pos].price = price
    IN  IF qty = 0
          THEN IF found THEN remove_bid(b, pos) ELSE b
          ELSE IF found THEN [b EXCEPT !.bids[pos].qty = @ + qty]
               ELSE insert_bid(b, pos, price, qty)

\* update_bid
update_bid(b, price, qty) ==
    LET pos == find_bid_position(b, price)
        found == pos < b.bid_depth /\ b.bids[pos].price = price
    IN  IF qty = 0
          THEN IF found THEN remove_bid(b, pos) ELSE b
          ELSE IF found THEN [b EXCEPT !.bids[pos].qty = qty]
               ELSE insert_bid(b, pos, price, qty)

\* An update_ask that inserts a level for every non-zero quantity, also at a
\* price the side already holds.
update_ask_always_insert(b, price, qty) ==
    LET pos == find_ask_position(b, price)
        found == pos < b.ask_depth /\ b.asks[pos].price = price
    IN  IF qty = 0
          THEN IF found THEN remove_ask(b, pos) ELSE b
          ELSE insert_ask(b, pos, price, qty)

\* update_ask
update_ask(b, price, qty) ==
    LET pos == find_ask_position(b, price)
        found == pos < b.ask_depth /\ b.asks[pos].price = price
    IN  IF qty = 0
          THEN IF found THEN remove_ask(b, pos) ELSE b
          ELSE IF found THEN [b EXCEPT !.asks[pos].qty = qty]
               ELSE insert_ask(b, pos, price, qty)

\* An update_level that applies the update to both sides.
update_level_both_sides(b, side, price, qty) ==
    update_ask(update_bid(b, price, qty), price, qty)

\* update_level
update_level(b, side, price, qty) ==
    IF side = "Buy" THEN update_bid(b, price, qty) ELSE update_ask(b, price, qty)

\* bids(): the populated prefix &self.bids[..self.bid_depth]
bids(b) == [i \in 0 .. b.bid_depth - 1 |-> b.bids[i]]

\* asks(): the populated prefix &self.asks[..self.ask_depth]
asks(b) == [i \in 0 .. b.ask_depth - 1 |-> b.asks[i]]

\* is_sorted (cfg(test))
is_sorted(b) ==
    /\ \A i \in 0 .. b.bid_depth - 2 : ~ (b.bids[i].price <= b.bids[i + 1].price)
    /\ \A i \in 0 .. b.ask_depth - 2 : ~ (b.asks[i].price >= b.asks[i + 1].price)

(***************************************************************************)
(* A queue of the pipeline (src/core/spsc.rs), with push and pop taken as  *)
(* single steps: SpecQueue shows that the steps of one push and one pop    *)
(* may be interleaved freely.  A slot holds a whole message.               *)
(***************************************************************************)
\* The content of a slot never written, and of a stage's empty message local.
NoMessage == [type |-> "Uninit"]

\* What a caller holds before the constructor has returned, and for ever when
\* it panicked: no queue.
NoQueue == [buffer |-> <<>>]

\* usize::count_ones
RECURSIVE count_ones(_)
count_ones(n) == IF n = 0 THEN 0 ELSE (n % 2) + count_ones(n \div 2)

\* A test for an even number in the place of the power-of-two test.
is_even(n) == n % 2 = 0

\* usize::is_power_of_two
is_power_of_two(n) == count_ones(n) = 1

\* SpscQueue::new(capacity): [ok, q]; ok is FALSE when an assert! panics.
new(capacity) ==
    IF ~ (capacity > 0) \/ ~ is_power_of_two(capacity)
      THEN [ok |-> FALSE, q |-> NoQueue]
      ELSE [ok |-> TRUE,
            q |-> [head |-> 0, tail |-> 0,
                   buffer |-> [i \in 1 .. capacity |-> NoMessage],
                   mask |-> capacity - 1]]

\* SpscQueue::new(Capacity)
SpscQueue_new == new(Capacity).q

\* A full test that compares the occupancy with the mask: full one slot early.
push_is_full_at_mask(q) == wrapping_sub(q.tail, q.head) = q.mask

\* push: tail.wrapping_sub(head) == self.buffer.len()
push_is_full(q) == wrapping_sub(q.tail, q.head) = Len(q.buffer)

\* A push that writes the slot before it tests for a full queue.
push_write_first(q, value) ==
    LET written == [q EXCEPT !.buffer[BitAnd(q.tail, q.mask) + 1] = value]
    IN  IF push_is_full(q)
          THEN [ok |-> FALSE, value |-> value, q |-> written]
          ELSE [ok |-> TRUE, value |-> value,
                q |-> [written EXCEPT !.tail = wrapping_add(q.tail, 1)]]

\* push(value): [ok, value, q]; value is what Err(value) hands back.
push(q, value) ==
    IF push_is_full(q)
      THEN [ok |-> FALSE, value |-> value, q |-> q]
      ELSE [ok |-> TRUE, value |-> value,
            q |-> [q EXCEPT !.buffer[BitAnd(q.tail, q.mask) + 1] = value,
                            !.tail = wrapping_add(q.tail, 1)]]

\* pop(): [some, value, q]
pop(q) ==
    IF q.head = q.tail
      THEN [some |-> FALSE, value |-> NoMessage, q |-> q]
      ELSE [some |-> TRUE,
            value |-> q.buffer[BitAnd(q.head, q.mask) + 1],
            q |-> [q EXCEPT !.head = wrapping_add(q.head, 1)]]

\* is_empty()
queue_is_empty(q) == len(q.tail, q.head) = 0

\* Drop: while self.pop().is_some() {}, from queue q with the values in taken
\* already popped and dropped: [q, taken]
RECURSIVE drop_from(_, _)
drop_from(q, taken) ==
    LET r == pop(q)
    IN  IF r.some THEN drop_from(r.q, Append(taken, r.value))
        ELSE [q |-> q, taken |-> taken]

\* A drop that pops once instead of popping until None.
drop_pops_once(q) ==
    LET r == pop(q)
    IN  [q |-> r.q, taken |-> IF r.some THEN <<r.value>> ELSE <<>>]

\* Drop for SpscQueue: [q, taken]
drop(q) == drop_from(q, <<>>)

(***************************************************************************)
(* Fixed-point scalars (src/core/types.rs) and messages                    *)
(* (src/messages.rs).  Timestamps carried by messages are payload no stage *)
(* reads and are left out; so is the optional latency tracker.             *)
(***************************************************************************)
\* Price::SCALE, Quantity::SCALE
SCALE == 10000

\* impl Add for Quantity: Quantity(self.0 + rhs.0)
Quantity_add(a, b) == a + b

\* impl Sub for Quantity: Quantity(self.0 - rhs.0)
Quantity_sub(a, b) == a - b

Price_new(integer, fractional) == integer * SCALE + fractional

\* Quantity::new(integer, fractional)
Quantity_new(integer, fractional) == integer * SCALE + fractional

\* Option<Price>
None == [some |-> FALSE, value |-> 0]

Some(v) == [some |-> TRUE, value |-> v]

\* A division that rounds toward minus infinity.
floor_div(a, b) == a \div b

\* The / of i64: the quotient rounded toward zero.
i64_div(a, b) ==
    LET q == (IF a < 0 THEN -a ELSE a) \div (IF b < 0 THEN -b ELSE b)
    IN  IF (a < 0) # (b < 0) THEN -q ELSE q

\* impl Sub for Price: Price(self.0 - rhs.0)
Price_sub(a, b) == a - b

\* impl Mul for Quantity: Quantity((self.0 * rhs.0) / Self::SCALE)
Quantity_mul(a, b) == i64_div(a * b, SCALE)

\* OrderBook::best_bid
OrderBook_best_bid(b) == IF b.bid_depth > 0 THEN Some(b.bids[0].price) ELSE None

\* OrderBook::best_ask
OrderBook_best_ask(b) == IF b.ask_depth > 0 THEN Some(b.asks[0].price) ELSE None

\* A spread that subtracts the best ask from the best bid.
OrderBook_spread_reversed(b) ==
    LET ask == OrderBook_best_ask(b)
        bid == OrderBook_best_bid(b)
    IN  IF ask.some /\ bid.some THEN Some(Price_sub(bid.value, ask.value)) ELSE None

\* OrderBook::spread
OrderBook_spread(b) ==
    LET ask == OrderBook_best_ask(b)
        bid == OrderBook_best_bid(b)
    IN  IF ask.some /\ bid.some THEN Some(Price_sub(ask.value, bid.value)) ELSE None

\* OrderBook::mid_price
OrderBook_mid_price(b) ==
    LET ask == OrderBook_best_ask(b)
        bid == OrderBook_best_bid(b)
    IN  IF ask.some /\ bid.some THEN Some(i64_div(ask.value + bid.value, 2))
        ELSE None

\* MarketEvent::Tick
Tick(symbol, price, qty, side) ==
    [type |-> "Tick", symbol |-> symbol, price |-> price, qty |-> qty, side |-> side]

\* MarketEvent::BookUpdate
Trade(symbol, price, qty) ==
    [type |-> "Trade", symbol |-> symbol, price |-> price, qty |-> qty]

BookUpdate(symbol, bid_levels, ask_levels) ==
    [type |-> "BookUpdate", symbol |-> symbol, bids |-> bid_levels, asks |-> ask_levels]

\* SignalEvent::Buy
Buy(symbol, price, qty) ==
    [type |-> "Buy", symbol |-> symbol, price |-> price, qty |-> qty]

\* SignalEvent::Sell
Sell(symbol, price, qty) ==
    [type |-> "Sell", symbol |-> symbol, price |-> price, qty |-> qty]

\* SignalEvent::Cancel
Cancel(order_id) == [type |-> "Cancel", order_id |-> order_id]

\* Order::new
Order_new(id, symbol, price, qty, side) ==
    [id |-> id, symbol |-> symbol, price |-> price, qty |-> qty, side |-> side]

\* RiskDecision::Approve
Approve(order) == [type |-> "Approve", order |-> order]

\* RiskDecision::Reject
Reject(reason, signal) ==
    [type |-> "Reject", reason |-> reason, original_signal |-> signal]

(***************************************************************************)
(* Market-data stage helpers (src/pipeline/market_data.rs).                *)
(***************************************************************************)
\* MarketDataConfig::default().symbol
DefaultSymbol == 1

\* tick_count % 10 == 0: every tenth event is a BookUpdate
BookUpdateEvery == 10

\* generate_mock_tick
generate_mock_tick(n) ==
    [price |-> 10000 + ((n % 100) - 50) * 5,
     qty |-> Quantity_new(10 + (n % 50), 0),
     side |-> IF n % 2 = 0 THEN "Buy" ELSE "Sell"]

\* copy_levels: the populated prefix, padded with empty levels
copy_levels(levels, depth) ==
    [i \in 0 .. MAX_LEVELS - 1 |-> IF i < depth THEN levels[i] ELSE PriceLevel_empty]

(***************************************************************************)
(* Strategy stage helpers (src/pipeline/strategy.rs).                      *)
(***************************************************************************)
\* StrategyConfig::default().spread_threshold
spread_threshold == Price_new(0, 5000)

\* The quantity of every signal.
SignalQty == Quantity_new(10, 0)

\* match event { ... }: the cached sides after the event, and the signal to push
\* (NoMessage for none).  event_count counts the event being handled.
strategy_on_event(event, event_count, bid, ask) ==
    IF event.type = "Tick" THEN
        LET bid1 == IF event.side = "Buy" /\ (~ bid.some \/ event.price > bid.value)
                      THEN Some(event.price) ELSE bid
            ask1 == IF event.side = "Sell" /\ (~ ask.some \/ event.price < ask.value)
                      THEN Some(event.price) ELSE ask
            emit == /\ bid1.some /\ ask1.some
                    /\ ask1.value - bid1.value <= spread_threshold
        IN  [best_bid |-> bid1,
             best_ask |-> ask1,
             signal |-> IF ~ emit THEN NoMessage
                        ELSE IF event_count % 2 = 0
                               THEN Buy(event.symbol, ask1.value, SignalQty)
                               ELSE Sell(event.symbol, bid1.value, SignalQty)]
    ELSE IF event.type = "BookUpdate" THEN
        [best_bid |-> IF ~ is_empty(event.bids[0])
                        THEN Some(event.bids[0].price) ELSE bid,
         best_ask |-> IF ~ is_empty(event.asks[0])
                        THEN Some(event.asks[0].price) ELSE ask,
         signal |-> NoMessage]
    ELSE
        [best_bid |-> bid, best_ask |-> ask, signal |-> NoMessage]

(***************************************************************************)
(* Risk stage helpers (src/pipeline/risk.rs).                              *)
(***************************************************************************)
\* RiskConfig::default()
RiskConfig_default ==
    [max_position |-> Quantity_new(1000, 0), max_orders_per_second |-> 100]

\* RiskState::new()
RiskState_new ==
    [current_position |-> Quantity_new(0, 0),
     order_count_this_second |-> 0,
     last_reset_time |-> 0,
     next_order_id |-> 1]

\* A get_next_order_id that returns the incremented counter (add-then-fetch).
get_next_order_id_incremented(st) == st.next_order_id + 1

\* RiskState::get_next_order_id: the value fetch_add(1) returns
get_next_order_id(st) == st.next_order_id

\* A long-side check that leaves the quantity of the signal out.
exceeds_max_position_without_qty(config, position, qty) ==
    position > config.max_position

\* Buy branch: state.current_position + qty > config.max_position
exceeds_max_position(config, position, qty) ==
    position + qty > config.max_position

\* A rate test written with > for >=: one more order passes in each window.
rate_limit_reached_gt(config, state) ==
    state.order_count_this_second > config.max_orders_per_second

\* if state.order_count_this_second >= config.max_orders_per_second
rate_limit_reached(config, state) ==
    state.order_count_this_second >= config.max_orders_per_second

\* The window of the rate limit, in cycles.
RateWindow == 1000000000

\* The short limit of the Sell branch: Quantity::new(-1000, 0).
ShortLimit == Quantity_new(-1000, 0)

\* A Cancel branch that builds the Order without the order_id of the signal.
cancel_order_without_id(signal) ==
    Order_new(0, 0, Price_new(0, 0), Quantity_new(0, 0), "Buy")

\* Cancel branch: Order::new(order_id, 0, Price::new(0, 0), Quantity::new(0, 0),
\* Side::Buy, timestamp)
cancel_order(signal) ==
    Order_new(signal.order_id, 0, Price_new(0, 0), Quantity_new(0, 0), "Buy")

\* if current_time - state.last_reset_time > 1_000_000_000 { reset }
reset_window(state, current_time) ==
    IF current_time - state.last_reset_time > RateWindow
      THEN [state EXCEPT !.order_count_this_second = 0,
                         !.last_reset_time = current_time]
      ELSE state

\* A match that tests the position limit before the rate limit.
risk_decide_position_first(config, state0, signal, current_time) ==
    LET state == reset_window(state0, current_time)
        rate == rate_limit_reached(config, state)
        rejected(reason) ==
            [state |-> state, decision |-> Reject(reason, signal),
             approved |-> 0, rejected |-> 1]
        approved(position, side) ==
            [state |-> [state EXCEPT !.current_position = position,
                                     !.order_count_this_second = @ + 1,
                                     !.next_order_id = @ + 1],
             decision |-> Approve(Order_new(get_next_order_id(state), signal.symbol,
                                            signal.price, signal.qty, side)),
             approved |-> 1, rejected |-> 0]
    IN  IF signal.type = "Buy" THEN
            IF exceeds_max_position(config, state.current_position, signal.qty)
              THEN rejected("PositionLimitExceeded")
            ELSE IF rate THEN rejected("RateLimitExceeded")
            ELSE approved(state.current_position + signal.qty, "Buy")
        ELSE IF signal.type = "Sell" THEN
            IF state.current_position - signal.qty < ShortLimit
              THEN rejected("PositionLimitExceeded")
            ELSE IF rate THEN rejected("RateLimitExceeded")
            ELSE approved(state.current_position - signal.qty, "Sell")
        ELSE
            [state |-> state,
             decision |-> Approve(cancel_order(signal)),
             approved |-> 1, rejected |-> 0]

\* A match that takes an order id before its tests, also for a signal it then
\* rejects.
risk_decide_id_first(config, state0, signal, current_time) ==
    LET state == reset_window(state0, current_time)
        rate == rate_limit_reached(config, state)
        taken == [state EXCEPT !.next_order_id = @ + 1]
        rejected(reason) ==
            [state |-> taken, decision |-> Reject(reason, signal),
             approved |-> 0, rejected |-> 1]
        approved(position, side) ==
            [state |-> [taken EXCEPT !.current_position = position,
                                     !.order_count_this_second = @ + 1],
             decision |-> Approve(Order_new(get_next_order_id(state), signal.symbol,
                                            signal.price, signal.qty, side)),
             approved |-> 1, rejected |-> 0]
    IN  IF signal.type = "Buy" THEN
            IF rate THEN rejected("RateLimitExceeded")
            ELSE IF exceeds_max_position(config, state.current_position, signal.qty)
              THEN rejected("PositionLimitExceeded")
            ELSE approved(state.current_position + signal.qty, "Buy")
        ELSE IF signal.type = "Sell" THEN
            IF rate THEN rejected("RateLimitExceeded")
            ELSE IF state.current_position - signal.qty < ShortLimit
              THEN rejected("PositionLimitExceeded")
            ELSE approved(state.current_position - signal.qty, "Sell")
        ELSE
            [state |-> state,
             decision |-> Approve(cancel_order(signal)),
             approved |-> 1, rejected |-> 0]

\* let decision = match signal { ... }: the state after the signal, the decision
\* and what it adds to approved_count and rejected_count.
risk_decide(config, state0, signal, current_time) ==
    LET state == reset_window(state0, current_time)
        rate == rate_limit_reached(config, state)
        rejected(reason) ==
            [state |-> state, decision |-> Reject(reason, signal),
             approved |-> 0, rejected |-> 1]
        approved(position, side) ==
            [state |-> [state EXCEPT !.current_position = position,
                                     !.order_count_this_second = @ + 1,
                                     !.next_order_id = @ + 1],
             decision |-> Approve(Order_new(get_next_order_id(state), signal.symbol,
                                            signal.price, signal.qty, side)),
             approved |-> 1, rejected |-> 0]
    IN  IF signal.type = "Buy" THEN
            IF rate THEN rejected("RateLimitExceeded")
            ELSE IF exceeds_max_position(config, state.current_position, signal.qty)
              THEN rejected("PositionLimitExceeded")
            ELSE approved(state.current_position + signal.qty, "Buy")
        ELSE IF signal.type = "Sell" THEN
            IF rate THEN rejected("RateLimitExceeded")
            ELSE IF state.current_position - signal.qty < ShortLimit
              THEN rejected("PositionLimitExceeded")
            ELSE approved(state.current_position - signal.qty, "Sell")
        ELSE
            [state |-> state,
             decision |-> Approve(cancel_order(signal)),
             approved |-> 1, rejected |-> 0]

VARIABLES
    \* SpscQueue fields
    head, tail, buffer,
    \* producer thread inside push: position, loaded counters, argument, result
    p_pc, p_tail, p_head, p_value, p_result,
    \* consumer thread inside pop: position, loaded counters, value read, result
    c_pc, c_head, c_tail, c_value, c_result,
    \* history: values accepted by successful pushes / returned by successful pops
    pushed, popped,
    \* SpecBook: the OrderBook under test
    book,
    \* history: the levels an unbounded book would hold after the same updates
    \* (price -> quantity, 0 for no level), per side
    ref_bids, ref_asks,
    \* history: a level held by the book was removed from the side while the
    \* unbounded book held more than MAX_LEVELS levels on it
    bid_lost, ask_lost,
    \* the three queues of the pipeline and the shutdown flag
    q1, q2, q3, shutdown,
    \* main: "running", "signalled" (shutdown stored), "joined"
    main_pc,
    \* run_market_data: position, tick_count, the event being pushed
    \* (its OrderBook is book)
    md_pc, tick_count, md_event,
    \* run_strategy: position, counters, cached sides, the signal being pushed
    st_pc, event_count, st_signal_count, best_bid, best_ask, st_signal,
    \* run_risk: position, config, RiskState, counters, the decision being pushed
    rk_pc, risk_config, state, signal_count, approved_count, rk_rejected_count,
    rk_decision,
    \* run_gateway: position and counters
    gw_pc, decision_count, sent_count, gw_rejected_count,
    \* the cycle counter (rdtsc)
    clock,
    \* history: the signals fed into Q2 by the feeder of SpecRisk, the signals
    \* run_risk has decided, and the decisions it pushed into Q3, in order
    fed, decided, decisions,
    \* history: the number of Buy and Sell signals run_risk approved since it
    \* last reset the window
    window_approved,
    \* history: the events fed into Q1 by the feeder of SpecStrategy, the signals
    \* run_strategy pushed into Q2 and the orders run_gateway handed to
    \* send_order_mock, in order
    events, signals, sent,
    \* SpecCalls: the queue the caller holds; "start", "ready", "panicked" or
    \* "dropped"
    sq, sq_pc,
    \* history: the calls made and what each returned, the constructor first,
    \* and the values taken out of sq by its drop
    calls, drained,
    \* SpecCalls: a queue constructed fresh when sq was found empty, called with
    \* every call made on sq since, and what those calls returned
    twin, twin_calls,
    \* SpecLen, a thread inside len(): position, the tail it loaded, whether
    \* push and pop were both idle at that load (and how many values had been
    \* pushed and popped), the value returned, the number of calls returned
    l_pc, l_tail, l_seen, l_result, l_calls,
    \* SpecArith: the raw values of the two Quantity operands, the operator
    \* applied ("none" before) and the raw value of what it returned
    lhs, rhs, arith_op, arith_out,
    \* SpecTracker: the LatencyTracker; per thread its position inside record,
    \* the argument, the current_min / current_max it holds and the number of
    \* calls it has made
    tracker, t_pc, t_cycles, t_current, t_calls,
    \* history: how many record(c) calls were started for each c since the
    \* tracker was constructed or last reset, and the number of resets
    recorded, resets

lvars == <<l_pc, l_tail, l_seen, l_result, l_calls>>

qvars == <<head, tail, buffer, p_pc, p_tail, p_head, p_value, p_result,
           c_pc, c_head, c_tail, c_value, c_result, pushed, popped, lvars>>

bvars == <<book, ref_bids, ref_asks, bid_lost, ask_lost>>

mainvars == <<shutdown, main_pc>>

mdvars == <<md_pc, tick_count, md_event>>

stvars == <<st_pc, event_count, st_signal_count, best_bid, best_ask, st_signal,
            signals>>

rkvars == <<rk_pc, risk_config, state, signal_count, approved_count,
            rk_rejected_count, rk_decision, decided, decisions, window_approved>>

gwvars == <<gw_pc, decision_count, sent_count, gw_rejected_count, sent>>

pvars == <<q1, q2, q3, mainvars, mdvars, stvars, rkvars, gwvars, clock, fed,
           events>>

tvars == <<tracker, t_pc, t_cycles, t_current, t_calls, recorded, resets>>

avars == <<lhs, rhs, arith_op, arith_out, tvars>>

cvars == <<sq, sq_pc, calls, drained, twin, twin_calls, avars>>

vars == <<qvars, bvars, pvars, cvars>>

\* Everything but the state of SpecQueue / of SpecBook.
not_queue == <<bvars, pvars, cvars, lvars>>

not_book == <<qvars, pvars, cvars>>

(***************************************************************************)
(* Inputs of the model.                                                    *)
(***************************************************************************)
Sides == {"Buy", "Sell"}

\* Raw prices fed to update_level: negative, zero and positive, two more prices
\* than a side has slots.
Prices == -1 .. MAX_LEVELS

\* Raw quantities fed to update_level (0 removes a level).
Qtys == {0, 1, 2}

\* What a len() call remembers of its first load when a push or a pop was in
\* progress.
NotQuiet == [quiet |-> FALSE, pushed |-> 0, popped |-> 0]

\* SpscQueue::new(Capacity), and two threads that have not called yet.
QueueInit ==
    /\ head = 0
    /\ tail = 0
    /\ buffer = [i \in 1 .. Capacity |-> UninitSlot]
    /\ p_pc = "idle" /\ p_tail = 0 /\ p_head = 0 /\ p_value = 0 /\ p_result = "none"
    /\ c_pc = "idle" /\ c_head = 0 /\ c_tail = 0
    /\ c_value = UninitSlot /\ c_result = "none"
    /\ pushed = <<>>
    /\ popped = <<>>
    /\ l_pc = "idle" /\ l_tail = 0 /\ l_seen = NotQuiet /\ l_result = 0
    /\ l_calls = 0

\* OrderBook::new(), and an unbounded book with no level.
BookInit ==
    /\ book = OrderBook_new
    /\ ref_bids = [p \in Prices |-> 0]
    /\ ref_asks = [p \in Prices |-> 0]
    /\ bid_lost = FALSE
    /\ ask_lost = FALSE

\* A caller that has not constructed its queue yet.
CallerInit ==
    /\ sq = NoQueue /\ sq_pc = "start" /\ calls = <<>> /\ drained = <<>>
    /\ twin = NoQueue /\ twin_calls = <<>>

\* Raw values of the Quantity operands: whole and fractional parts of either
\* sign, down to the smallest unit 0.0001.
ArithValues ==
    {Quantity_new(i, f) : i \in -MaxWhole .. MaxWhole, f \in {0, 1, 5000}}

\* Two Quantities, not combined yet.
ArithInit ==
    /\ lhs \in ArithValues /\ rhs \in ArithValues
    /\ arith_op = "none" /\ arith_out = 0

\* No Quantity arithmetic in progress.
ArithIdle == lhs = 0 /\ rhs = 0 /\ arith_op = "none" /\ arith_out = 0

\* u64::MAX, the value min holds while nothing is recorded; it stands above
\* every cycle count recorded.
U64_MAX == 2147483647

\* LatencyTracker::new()
LatencyTracker_new == [count |-> 0, sum |-> 0, min |-> U64_MAX, max |-> 0]

\* The threads that share the tracker, and the cycle counts they record.
Threads == {1, 2}

Cycles == 0 .. MaxCycles

\* A fresh tracker and two threads that have not called record yet.
TrackerInit ==
    /\ tracker = LatencyTracker_new
    /\ t_pc = [t \in Threads |-> "idle"]
    /\ t_cycles = [t \in Threads |-> 0]
    /\ t_current = [t \in Threads |-> 0]
    /\ t_calls = [t \in Threads |-> 0]
    /\ recorded = [c \in Cycles |-> 0]
    /\ resets = 0

CallsInit == CallerInit /\ ArithIdle /\ TrackerInit

\* main before the threads are spawned: three empty queues, the flag clear,
\* every stage at the head of its loop with its locals as initialised.
PipelineStart(config) ==
    /\ q1 = SpscQueue_new /\ q2 = SpscQueue_new /\ q3 = SpscQueue_new
    /\ shutdown = FALSE
    /\ main_pc = "running"
    /\ md_pc = "loop" /\ tick_count = 0 /\ md_event = NoMessage
    /\ st_pc = "loop" /\ event_count = 0 /\ st_signal_count = 0
    /\ best_bid = None /\ best_ask = None /\ st_signal = NoMessage
    /\ rk_pc = "loop" /\ risk_config = config /\ state = RiskState_new
    /\ signal_count = 0 /\ approved_count = 0 /\ rk_rejected_count = 0
    /\ rk_decision = NoMessage
    /\ gw_pc = "loop" /\ decision_count = 0 /\ sent_count = 0
    /\ gw_rejected_count = 0
    /\ clock = 0
    /\ fed = <<>> /\ decided = <<>> /\ decisions = <<>>
    /\ window_approved = 0
    /\ events = <<>> /\ signals = <<>> /\ sent = <<>>

\* main: every stage runs with its default configuration.
PipelineInit == PipelineStart(RiskConfig_default)

(***************************************************************************)
(* push(value), step by step.                                              *)
(***************************************************************************)
\* let tail = self.tail.load(Relaxed)
PushLoadTail ==
    /\ p_pc = "idle"
    /\ Len(pushed) < MaxPush
    /\ \E v \in Values : p_value' = v
    /\ p_tail' = tail
    /\ p_pc' = "load_head"
    /\ p_result' = "none"
    /\ UNCHANGED <<head, tail, buffer, p_head, c_pc, c_head, c_tail, c_value,
                   c_result, pushed, popped>>
    /\ UNCHANGED not_queue

\* A push that waits for room: while the queue is full it does not return.
PushLoadHead_wait ==
    /\ p_pc = "load_head"
    /\ ~ IsFull(p_tail, head)
    /\ p_head' = head
    /\ p_pc' = "write_lo" /\ p_result' = "none"
    /\ UNCHANGED <<head, tail, buffer, p_tail, p_value, c_pc, c_head, c_tail,
                   c_value, c_result, pushed, popped>>
    /\ UNCHANGED not_queue

\* let head = self.head.load(Acquire); if full { return Err(value) }
PushLoadHead ==
    /\ p_pc = "load_head"
    /\ p_head' = head
    /\ IF IsFull(p_tail, head)
         THEN p_pc' = "idle" /\ p_result' = "Err"
         ELSE p_pc' = "write_lo" /\ p_result' = "none"
    /\ UNCHANGED <<head, tail, buffer, p_tail, p_value, c_pc, c_head, c_tail,
                   c_value, c_result, pushed, popped>>
    /\ UNCHANGED not_queue

\* The first half of the slot written and the tail published in the same breath,
\* before the second half: the slot write no longer precedes the publication.
PushWriteLo_publish_early ==
    /\ p_pc = "write_lo"
    /\ buffer' = [buffer EXCEPT ![SlotIndex(p_tail)].lo = p_value]
    /\ tail' = wrapping_add(p_tail, 1)
    /\ p_pc' = "write_hi"
    /\ UNCHANGED <<head, p_tail, p_head, p_value, p_result, c_pc, c_head,
                   c_tail, c_value, c_result, pushed, popped>>
    /\ UNCHANGED not_queue

\* (*slot.get()).write(value): first half of the slot
PushWriteLo ==
    /\ p_pc = "write_lo"
    /\ buffer' = [buffer EXCEPT ![SlotIndex(p_tail)].lo = p_value]
    /\ p_pc' = "write_hi"
    /\ UNCHANGED <<head, tail, p_tail, p_head, p_value, p_result, c_pc, c_head,
                   c_tail, c_value, c_result, pushed, popped>>
    /\ UNCHANGED not_queue

\* (*slot.get()).write(value): second half of the slot
PushWriteHi ==
    /\ p_pc = "write_hi"
    /\ buffer' = [buffer EXCEPT ![SlotIndex(p_tail)].hi = p_value]
    /\ p_pc' = "store_tail"
    /\ UNCHANGED <<head, tail, p_tail, p_head, p_value, p_result, c_pc, c_head,
                   c_tail, c_value, c_result, pushed, popped>>
    /\ UNCHANGED not_queue

\* self.tail.store(tail.wrapping_add(1), Release); Ok(())
PushStoreTail ==
    /\ p_pc = "store_tail"
    /\ tail' = wrapping_add(p_tail, 1)
    /\ p_pc' = "idle"
    /\ p_result' = "Ok"
    /\ pushed' = Append(pushed, p_value)
    /\ UNCHANGED <<head, buffer, p_tail, p_head, p_value, c_pc, c_head, c_tail,
                   c_value, c_result, popped>>
    /\ UNCHANGED not_queue

(***************************************************************************)
(* pop(), step by step.                                                    *)
(***************************************************************************)
\* let head = self.head.load(Relaxed)
PopLoadHead ==
    /\ c_pc = "idle"
    /\ c_head' = head
    /\ c_pc' = "load_tail"
    /\ c_result' = "none"
    /\ UNCHANGED <<head, tail, buffer, p_pc, p_tail, p_head, p_value, p_result,
                   c_tail, c_value, pushed, popped>>
    /\ UNCHANGED not_queue

\* let tail = self.tail.load(Acquire); if head == tail { return None }
PopLoadTail ==
    /\ c_pc = "load_tail"
    /\ c_tail' = tail
    /\ IF IsEmpty(c_head, tail)
         THEN c_pc' = "idle" /\ c_result' = "None"
         ELSE c_pc' = "read_lo" /\ c_result' = "none"
    /\ UNCHANGED <<head, tail, buffer, p_pc, p_tail, p_head, p_value, p_result,
                   c_head, c_value, pushed, popped>>
    /\ UNCHANGED not_queue

\* (*slot.get()).assume_init_read(): first half of the slot
PopReadLo ==
    /\ c_pc = "read_lo"
    /\ c_value' = [c_value EXCEPT !.lo = buffer[SlotIndex(c_head)].lo]
    /\ c_pc' = "read_hi"
    /\ UNCHANGED <<head, tail, buffer, p_pc, p_tail, p_head, p_value, p_result,
                   c_head, c_tail, c_result, pushed, popped>>
    /\ UNCHANGED not_queue

\* (*slot.get()).assume_init_read(): second half of the slot
PopReadHi ==
    /\ c_pc = "read_hi"
    /\ c_value' = [c_value EXCEPT !.hi = buffer[SlotIndex(c_head)].hi]
    /\ c_pc' = "store_head"
    /\ UNCHANGED <<head, tail, buffer, p_pc, p_tail, p_head, p_value, p_result,
                   c_head, c_tail, c_result, pushed, popped>>
    /\ UNCHANGED not_queue

\* A pop that, with its store to head, stores the tail it loaded back to tail.
PopStoreHead_stores_tail ==
    /\ c_pc = "store_head"
    /\ head' = wrapping_add(c_head, 1)
    /\ tail' = c_tail
    /\ c_pc' = "idle"
    /\ c_result' = "Some"
    /\ popped' = Append(popped, c_value)
    /\ UNCHANGED <<buffer, p_pc, p_tail, p_head, p_value, p_result,
                   c_head, c_tail, c_value, pushed>>
    /\ UNCHANGED not_queue

\* self.head.store(head.wrapping_add(1), Release); Some(value)
PopStoreHead ==
    /\ c_pc = "store_head"
    /\ head' = wrapping_add(c_head, 1)
    /\ c_pc' = "idle"
    /\ c_result' = "Some"
    /\ popped' = Append(popped, c_value)
    /\ UNCHANGED <<tail, buffer, p_pc, p_tail, p_head, p_value, p_result,
                   c_head, c_tail, c_value, pushed>>
    /\ UNCHANGED not_queue

\* The steps of a push after its first, and of a pop after its first.
PushSteps == PushLoadHead \/ PushWriteLo \/ PushWriteHi \/ PushStoreTail

PopSteps == PopLoadTail \/ PopReadLo \/ PopReadHi \/ PopStoreHead

QueueNext ==
    \/ PushLoadTail
    \/ PushLoadHead
    \/ PushWriteLo
    \/ PushWriteHi
    \/ PushStoreTail
    \/ PopLoadHead
    \/ PopLoadTail
    \/ PopReadLo
    \/ PopReadHi
    \/ PopStoreHead

SpecQueueInit == QueueInit /\ BookInit /\ PipelineInit /\ CallsInit

SpecQueue == SpecQueueInit /\ [][QueueNext]_vars

(***************************************************************************)
(* SpecLen: the producer and the consumer of SpecQueue, and a third thread *)
(* that holds the queue and calls len(), one load a step.                  *)
(***************************************************************************)
\* len: let tail = self.tail.load(Acquire)
LenLoadTail ==
    /\ l_pc = "idle"
    /\ l_calls < MaxLenCalls
    /\ l_tail' = tail
    /\ l_seen' = IF p_pc = "idle" /\ c_pc = "idle"
                   THEN [quiet |-> TRUE, pushed |-> Len(pushed),
                         popped |-> Len(popped)]
                   ELSE NotQuiet
    /\ l_pc' = "load_head"
    /\ UNCHANGED <<l_result, l_calls>>
    /\ UNCHANGED <<head, tail, buffer, p_pc, p_tail, p_head, p_value, p_result,
                   c_pc, c_head, c_tail, c_value, c_result, pushed, popped>>
    /\ UNCHANGED <<bvars, pvars, cvars>>

\* len: let head = self.head.load(Acquire); tail.wrapping_sub(head)
LenLoadHead ==
    /\ l_pc = "load_head"
    /\ l_result' = len(l_tail, head)
    /\ l_calls' = l_calls + 1
    /\ l_pc' = "idle"
    /\ UNCHANGED <<l_tail, l_seen>>
    /\ UNCHANGED <<head, tail, buffer, p_pc, p_tail, p_head, p_value, p_result,
                   c_pc, c_head, c_tail, c_value, c_result, pushed, popped>>
    /\ UNCHANGED <<bvars, pvars, cvars>>

LenNext ==
    \/ PushLoadTail
    \/ PushLoadHead
    \/ PushWriteLo
    \/ PushWriteHi
    \/ PushStoreTail
    \/ PopLoadHead
    \/ PopLoadTail
    \/ PopReadLo
    \/ PopReadHi
    \/ PopStoreHead
    \/ LenLoadTail
    \/ LenLoadHead

SpecLenInit == QueueInit /\ BookInit /\ PipelineInit /\ CallsInit

SpecLen == SpecLenInit /\ [][LenNext]_vars

(***************************************************************************)
(* SpecCalls: one caller constructs a queue with any capacity a usize can  *)
(* hold and then makes any sequence of push and pop calls on it, each call *)
(* one step.  The value pushed by a call carries the number of the call.   *)
(* Once, when the queue is empty, a second queue of the same capacity is   *)
(* constructed and from then on called alongside the first.                *)
(***************************************************************************)
\* The capacities a caller may ask for.
Capacities == 0 .. Word - 1

\* The value pushed by the n-th call.
CallValue(n) == [type |-> "Value", n |-> n]

\* The record of a call to new.
NewCall(capacity, r) == [op |-> "new", arg |-> capacity, ok |-> r.ok]

\* The record of a call to push: Ok(()) or Err(value).
PushCall(value, r) ==
    [op |-> "push", arg |-> value, ok |-> r.ok,
     value |-> IF r.ok THEN NoMessage ELSE r.value]

\* The record of a call to pop: Some(value) or None.
PopCall(r) == [op |-> "pop", arg |-> NoMessage, ok |-> r.some, value |-> r.value]

\* let queue = SpscQueue::new(capacity)
New ==
    /\ sq_pc = "start"
    /\ \E capacity \in Capacities :
         LET r == new(capacity)
         IN  /\ sq' = r.q
             /\ sq_pc' = IF r.ok THEN "ready" ELSE "panicked"
             /\ calls' = <<NewCall(capacity, r)>>
    /\ UNCHANGED <<drained, twin, twin_calls>>
    /\ UNCHANGED <<qvars, bvars, pvars, avars>>

\* queue.push(value)
CallPush ==
    /\ sq_pc = "ready"
    /\ Len(calls) < MaxCalls
    /\ LET value == CallValue(Len(calls))
           r == push(sq, value)
           t == push(twin, value)
       IN  /\ sq' = r.q
           /\ calls' = Append(calls, PushCall(value, r))
           /\ IF twin = NoQueue
                 THEN UNCHANGED <<twin, twin_calls>>
                 ELSE /\ twin' = t.q
                      /\ twin_calls' = Append(twin_calls, PushCall(value, t))
    /\ UNCHANGED <<sq_pc, drained>>
    /\ UNCHANGED <<qvars, bvars, pvars, avars>>

\* queue.pop()
CallPop ==
    /\ sq_pc = "ready"
    /\ Len(calls) < MaxCalls
    /\ LET r == pop(sq)
           t == pop(twin)
       IN  /\ sq' = r.q
           /\ calls' = Append(calls, PopCall(r))
           /\ IF twin = NoQueue
                 THEN UNCHANGED <<twin, twin_calls>>
                 ELSE /\ twin' = t.q
                      /\ twin_calls' = Append(twin_calls, PopCall(t))
    /\ UNCHANGED <<sq_pc, drained>>
    /\ UNCHANGED <<qvars, bvars, pvars, avars>>

\* The queue is empty again after some calls: a fresh queue of the same capacity
\* is constructed next to it.
NewTwin ==
    /\ sq_pc = "ready"
    /\ twin = NoQueue
    /\ Len(calls) > 1
    /\ sq.head = sq.tail
    /\ twin' = new(Len(sq.buffer)).q
    /\ twin_calls' = <<>>
    /\ UNCHANGED <<sq, sq_pc, calls, drained>>
    /\ UNCHANGED <<qvars, bvars, pvars, avars>>

\* The caller lets go of the queue: drop(queue)
Drop ==
    /\ sq_pc = "ready"
    /\ sq' = drop(sq).q
    /\ drained' = drop(sq).taken
    /\ sq_pc' = "dropped"
    /\ UNCHANGED <<calls, twin, twin_calls>>
    /\ UNCHANGED <<qvars, bvars, pvars, avars>>

CallsNext ==
    \/ New
    \/ CallPush
    \/ CallPop
    \/ NewTwin
    \/ Drop

SpecCallsInit == CallsInit /\ QueueInit /\ BookInit /\ PipelineInit

SpecCalls == SpecCallsInit /\ [][CallsNext]_vars

(***************************************************************************)
(* SpecArith: the three operators of Quantity (src/core/types.rs), each    *)
(* applied once to any two operands.  Operands are far from the i64 range. *)
(***************************************************************************)
\* a + b
QuantityAdd ==
    /\ arith_op = "none"
    /\ arith_op' = "add"
    /\ arith_out' = Quantity_add(lhs, rhs)
    /\ UNCHANGED <<lhs, rhs, sq, sq_pc, calls, drained, twin, twin_calls, tvars>>
    /\ UNCHANGED <<qvars, bvars, pvars>>

\* a - b
QuantitySub ==
    /\ arith_op = "none"
    /\ arith_op' = "sub"
    /\ arith_out' = Quantity_sub(lhs, rhs)
    /\ UNCHANGED <<lhs, rhs, sq, sq_pc, calls, drained, twin, twin_calls, tvars>>
    /\ UNCHANGED <<qvars, bvars, pvars>>

\* a * b
QuantityMul ==
    /\ arith_op = "none"
    /\ arith_op' = "mul"
    /\ arith_out' = Quantity_mul(lhs, rhs)
    /\ UNCHANGED <<lhs, rhs, sq, sq_pc, calls, drained, twin, twin_calls, tvars>>
    /\ UNCHANGED <<qvars, bvars, pvars>>

ArithNext ==
    \/ QuantityAdd
    \/ QuantitySub
    \/ QuantityMul

SpecArithInit ==
    ArithInit /\ CallerInit /\ TrackerInit /\ QueueInit /\ BookInit /\ PipelineInit

SpecArith == SpecArithInit /\ [][ArithNext]_vars

(***************************************************************************)
(* SpecTracker: LatencyTracker (src/core/metrics.rs).  Every atomic access *)
(* of record is a step.  A compare_exchange_weak that fails although min   *)
(* (max) holds the expected value hands back that same value and changes   *)
(* nothing: it is a stuttering step.  reset is called while no record is   *)
(* in progress.  Cycle counts are below u64::MAX and their sum is within   *)
(* the range of u64.                                                       *)
(***************************************************************************)
\* What the tracker actions leave alone.
not_tracker == <<lhs, rhs, arith_op, arith_out, sq, sq_pc, calls, drained, twin,
                 twin_calls, qvars, bvars, pvars>>

\* LatencyTracker::stats
stats(tr) ==
    [count |-> tr.count,
     min |-> IF tr.min = U64_MAX THEN 0 ELSE tr.min,
     max |-> tr.max,
     avg |-> IF tr.count > 0 THEN tr.sum \div tr.count ELSE 0]

\* record(cycles): self.count.fetch_add(1, Relaxed)
RecordCount(t) ==
    /\ t_pc[t] = "idle"
    /\ t_calls[t] < MaxRecords
    /\ \E cycles \in Cycles :
         /\ t_cycles' = [t_cycles EXCEPT ![t] = cycles]
         /\ recorded' = [recorded EXCEPT ![cycles] = @ + 1]
    /\ tracker' = [tracker EXCEPT !.count = @ + 1]
    /\ t_pc' = [t_pc EXCEPT ![t] = "sum"]
    /\ UNCHANGED <<t_current, t_calls, resets>>
    /\ UNCHANGED not_tracker

\* self.sum.fetch_add(cycles, Relaxed)
RecordSum(t) ==
    /\ t_pc[t] = "sum"
    /\ tracker' = [tracker EXCEPT !.sum = @ + t_cycles[t]]
    /\ t_pc' = [t_pc EXCEPT ![t] = "load_min"]
    /\ UNCHANGED <<t_cycles, t_current, t_calls, recorded, resets>>
    /\ UNCHANGED not_tracker

\* let mut current_min = self.min.load(Relaxed)
RecordLoadMin(t) ==
    /\ t_pc[t] = "load_min"
    /\ t_current' = [t_current EXCEPT ![t] = tracker.min]
    /\ t_pc' = [t_pc EXCEPT ![t] = "cas_min"]
    /\ UNCHANGED <<tracker, t_cycles, t_calls, recorded, resets>>
    /\ UNCHANGED not_tracker

\* A min loop that stores cycles where the code compares and exchanges.
RecordCasMin_store(t) ==
    /\ t_pc[t] = "cas_min"
    /\ IF t_cycles[t] < t_current[t]
         THEN tracker' = [tracker EXCEPT !.min = t_cycles[t]]
         ELSE UNCHANGED tracker
    /\ t_pc' = [t_pc EXCEPT ![t] = "load_max"]
    /\ UNCHANGED <<t_cycles, t_current, t_calls, recorded, resets>>
    /\ UNCHANGED not_tracker

\* while cycles < current_min { match self.min.compare_exchange_weak(
\* current_min, cycles, ..) { Ok(_) => break, Err(x) => current_min = x } }
RecordCasMin(t) ==
    /\ t_pc[t] = "cas_min"
    /\ IF ~ (t_cycles[t] < t_current[t])
         THEN /\ t_pc' = [t_pc EXCEPT ![t] = "load_max"]
              /\ UNCHANGED <<tracker, t_current>>
         ELSE IF tracker.min = t_current[t]
         THEN /\ tracker' = [tracker EXCEPT !.min = t_cycles[t]]
              /\ t_pc' = [t_pc EXCEPT ![t] = "load_max"]
              /\ UNCHANGED t_current
         ELSE /\ t_current' = [t_current EXCEPT ![t] = tracker.min]
              /\ UNCHANGED <<tracker, t_pc>>
    /\ UNCHANGED <<t_cycles, t_calls, recorded, resets>>
    /\ UNCHANGED not_tracker

\* let mut current_max = self.max.load(Relaxed)
RecordLoadMax(t) ==
    /\ t_pc[t] = "load_max"
    /\ t_current' = [t_current EXCEPT ![t] = tracker.max]
    /\ t_pc' = [t_pc EXCEPT ![t] = "cas_max"]
    /\ UNCHANGED <<tracker, t_cycles, t_calls, recorded, resets>>
    /\ UNCHANGED not_tracker

\* while cycles > current_max { match self.max.compare_exchange_weak(
\* current_max, cycles, ..) { Ok(_) => break, Err(x) => current_max = x } }
RecordCasMax(t) ==
    /\ t_pc[t] = "cas_max"
    /\ IF ~ (t_cycles[t] > t_current[t])
         THEN /\ t_pc' = [t_pc EXCEPT ![t] = "idle"]
              /\ t_calls' = [t_calls EXCEPT ![t] = @ + 1]
              /\ UNCHANGED <<tracker, t_current>>
         ELSE IF tracker.max = t_current[t]
         THEN /\ tracker' = [tracker EXCEPT !.max = t_cycles[t]]
              /\ t_pc' = [t_pc EXCEPT ![t] = "idle"]
              /\ t_calls' = [t_calls EXCEPT ![t] = @ + 1]
              /\ UNCHANGED t_current
         ELSE /\ t_current' = [t_current EXCEPT ![t] = tracker.max]
              /\ UNCHANGED <<tracker, t_pc, t_calls>>
    /\ UNCHANGED <<t_cycles, recorded, resets>>
    /\ UNCHANGED not_tracker

\* reset(), called once while no record is in progress: count.store(0),
\* sum.store(0), min.store(u64::MAX), max.store(0)
Reset ==
    /\ \A t \in Threads : t_pc[t] = "idle"
    /\ resets = 0
    /\ tracker.count > 0
    /\ tracker' = [count |-> 0, sum |-> 0, min |-> U64_MAX, max |-> 0]
    /\ recorded' = [c \in Cycles |-> 0]
    /\ resets' = 1
    /\ UNCHANGED <<t_pc, t_cycles, t_current, t_calls>>
    /\ UNCHANGED not_tracker

TrackerNext ==
    \/ \E t \in Threads : RecordCount(t)
    \/ \E t \in Threads : RecordSum(t)
    \/ \E t \in Threads : RecordLoadMin(t)
    \/ \E t \in Threads : RecordCasMin(t)
    \/ \E t \in Threads : RecordLoadMax(t)
    \/ \E t \in Threads : RecordCasMax(t)
    \/ Reset

SpecTrackerInit ==
    TrackerInit /\ CallerInit /\ ArithIdle /\ QueueInit /\ BookInit /\ PipelineInit

SpecTracker == SpecTrackerInit /\ [][TrackerNext]_vars

(***************************************************************************)
(* SpecBook: any sequence of update_level calls on one OrderBook.          *)
(***************************************************************************)
\* The book holds a level at this price on this side.
Holds(b, side, price) ==
    IF side = "Buy"
      THEN \E i \in 0 .. b.bid_depth - 1 : b.bids[i].price = price
      ELSE \E i \in 0 .. b.ask_depth - 1 : b.asks[i].price = price

\* Number of levels of one side of the unbounded book.
RefDepth(ref) == Cardinality({p \in Prices : ref[p] # 0})

\* book.update_level(side, price, qty)
UpdateLevel ==
    \E side \in Sides, price \in Prices, qty \in Qtys :
        /\ book' = update_level(book, side, price, qty)
        /\ IF side = "Buy"
             THEN /\ ref_bids' = [ref_bids EXCEPT ![price] = qty]
                  /\ bid_lost' = (bid_lost \/ (/\ qty = 0
                                                /\ Holds(book, side, price)
                                                /\ RefDepth(ref_bids) > MAX_LEVELS))
                  /\ UNCHANGED <<ref_asks, ask_lost>>
             ELSE /\ ref_asks' = [ref_asks EXCEPT ![price] = qty]
                  /\ ask_lost' = (ask_lost \/ (/\ qty = 0
                                                /\ Holds(book, side, price)
                                                /\ RefDepth(ref_asks) > MAX_LEVELS))
                  /\ UNCHANGED <<ref_bids, bid_lost>>
        /\ UNCHANGED not_book

BookNext == UpdateLevel

SpecBookInit == BookInit /\ QueueInit /\ PipelineInit /\ CallsInit

SpecBook == SpecBookInit /\ [][BookNext]_vars

\* book.update_level(side, price, qty), the reference book left alone
UpdateLevelOnly ==
    \E side \in Sides, price \in Prices, qty \in Qtys :
        /\ book' = update_level(book, side, price, qty)
        /\ UNCHANGED <<ref_bids, ref_asks, bid_lost, ask_lost>>
        /\ UNCHANGED not_book

LevelsNext == UpdateLevelOnly

SpecLevels == SpecBookInit /\ [][LevelsNext]_vars

(***************************************************************************)
(* SpecPipeline: main and the four stages (src/main.rs, src/pipeline).     *)
(* A stage spinning on a full output queue or polling an empty input queue *)
(* and finding the flag clear changes nothing but its own position.        *)
(***************************************************************************)
\* shutdown.store(true, Relaxed), after the sleep
MainShutdown ==
    /\ main_pc = "running"
    /\ shutdown' = TRUE
    /\ main_pc' = "signalled"
    /\ UNCHANGED <<q1, q2, q3, mdvars, stvars, rkvars, gwvars, clock, fed, events>>
    /\ UNCHANGED <<qvars, bvars, cvars>>

\* md_thread.join() ... gateway_thread.join()
MainJoin ==
    /\ main_pc = "signalled"
    /\ md_pc = "done" /\ st_pc = "done" /\ rk_pc = "done" /\ gw_pc = "done"
    /\ main_pc' = "joined"
    /\ UNCHANGED <<q1, q2, q3, shutdown, mdvars, stvars, rkvars, gwvars, clock, fed,
                   events>>
    /\ UNCHANGED <<qvars, bvars, cvars>>

\* run_market_data: while !shutdown.load(Relaxed) { generate_mock_tick;
\* book.update_level; build the event
MdLoop ==
    /\ md_pc = "loop"
    /\ IF shutdown
         THEN md_pc' = "done" /\ UNCHANGED <<book, md_event>>
         ELSE LET t == generate_mock_tick(tick_count)
                  b == update_level(book, t.side, t.price, t.qty)
              IN  /\ book' = b
                  /\ md_event' =
                       IF tick_count % BookUpdateEvery = 0
                         THEN BookUpdate(DefaultSymbol,
                                         copy_levels(bids(b), b.bid_depth),
                                         copy_levels(asks(b), b.ask_depth))
                         ELSE Tick(DefaultSymbol, t.price, t.qty, t.side)
                  /\ md_pc' = "push"
    /\ UNCHANGED <<q1, q2, q3, mainvars, tick_count, stvars, rkvars, gwvars, clock,
                   fed, events>>
    /\ UNCHANGED <<qvars, ref_bids, ref_asks, bid_lost, ask_lost, cvars>>

\* run_market_data: while output_queue.push(event).is_err() { spin_loop() };
\* tick_count += 1; if tick_count >= 100_000 { break }
MdPush ==
    /\ md_pc = "push"
    /\ push(q1, md_event).ok
    /\ q1' = push(q1, md_event).q
    /\ tick_count' = tick_count + 1
    /\ md_pc' = IF tick_count + 1 >= MaxTicks THEN "done" ELSE "loop"
    /\ md_event' = NoMessage
    /\ UNCHANGED <<q2, q3, mainvars, stvars, rkvars, gwvars, clock, fed, events>>
    /\ UNCHANGED <<qvars, bvars, cvars>>

\* run_strategy: while !shutdown.load(Relaxed)
StLoop ==
    /\ st_pc = "loop"
    /\ st_pc' = IF shutdown THEN "done" ELSE "pop"
    /\ UNCHANGED <<q1, q2, q3, mainvars, mdvars, event_count, st_signal_count,
                   best_bid, best_ask, st_signal, signals, rkvars, gwvars, clock,
                   fed, events>>
    /\ UNCHANGED <<qvars, bvars, cvars>>

\* run_strategy: if let Some(event) = input_queue.pop() { match event ... }
\* else { spin_loop() }
StPop ==
    /\ st_pc = "pop"
    /\ LET r == pop(q1)
           o == strategy_on_event(r.value, event_count + 1, best_bid, best_ask)
       IN  IF ~ r.some
             THEN /\ st_pc' = "loop"
                  /\ UNCHANGED <<q1, event_count, best_bid, best_ask, st_signal>>
             ELSE /\ q1' = r.q
                  /\ event_count' = event_count + 1
                  /\ best_bid' = o.best_bid
                  /\ best_ask' = o.best_ask
                  /\ st_signal' = o.signal
                  /\ st_pc' = IF o.signal = NoMessage THEN "loop" ELSE "push"
    /\ UNCHANGED <<q2, q3, mainvars, mdvars, st_signal_count, signals, rkvars,
                   gwvars, clock, fed, events>>
    /\ UNCHANGED <<qvars, bvars, cvars>>

\* A strategy that pushes the signal it built and keeps it for a further push.
StPush_again ==
    /\ st_pc = "push"
    /\ push(q2, st_signal).ok
    /\ q2' = push(q2, st_signal).q
    /\ st_signal_count' = st_signal_count + 1
    /\ signals' = Append(signals, st_signal)
    /\ UNCHANGED <<st_signal, st_pc>>
    /\ UNCHANGED <<q1, q3, mainvars, mdvars, event_count, best_bid, best_ask,
                   rkvars, gwvars, clock, fed, events>>
    /\ UNCHANGED <<qvars, bvars, cvars>>

\* run_strategy: while output_queue.push(signal).is_err() { spin_loop() };
\* signal_count += 1
StPush ==
    /\ st_pc = "push"
    /\ push(q2, st_signal).ok
    /\ q2' = push(q2, st_signal).q
    /\ st_signal_count' = st_signal_count + 1
    /\ signals' = Append(signals, st_signal)
    /\ st_signal' = NoMessage
    /\ st_pc' = "loop"
    /\ UNCHANGED <<q1, q3, mainvars, mdvars, event_count, best_bid, best_ask,
                   rkvars, gwvars, clock, fed, events>>
    /\ UNCHANGED <<qvars, bvars, cvars>>

\* run_risk: while !shutdown.load(Relaxed)
RkLoop ==
    /\ rk_pc = "loop"
    /\ rk_pc' = IF shutdown THEN "done" ELSE "pop"
    /\ UNCHANGED <<q1, q2, q3, mainvars, mdvars, stvars, risk_config, state,
                   signal_count, approved_count, rk_rejected_count, rk_decision,
                   decided, decisions, window_approved, gwvars, clock, fed, events>>
    /\ UNCHANGED <<qvars, bvars, cvars>>

\* run_risk: if let Some(signal) = input_queue.pop() { start = rdtsc();
\* signal_count += 1; window reset; let decision = match signal ... }
\* else { spin_loop() }
RkPop ==
    /\ rk_pc = "pop"
    /\ LET r == pop(q2)
           o == risk_decide(risk_config, state, r.value, clock)
       IN  IF ~ r.some
             THEN /\ rk_pc' = "loop"
                  /\ UNCHANGED <<q2, state, signal_count, approved_count,
                                 rk_rejected_count, rk_decision, decided,
                                 window_approved>>
             ELSE /\ q2' = r.q
                  /\ signal_count' = signal_count + 1
                  /\ state' = o.state
                  /\ approved_count' = approved_count + o.approved
                  /\ rk_rejected_count' = rk_rejected_count + o.rejected
                  /\ rk_decision' = o.decision
                  /\ decided' = Append(decided, r.value)
                  /\ window_approved' =
                       (IF o.state.last_reset_time # state.last_reset_time
                          THEN 0 ELSE window_approved)
                         + (IF r.value.type \in {"Buy", "Sell"} THEN o.approved ELSE 0)
                  /\ rk_pc' = "push"
    /\ UNCHANGED <<q1, q3, mainvars, mdvars, stvars, risk_config, decisions,
                   gwvars, clock, fed, events>>
    /\ UNCHANGED <<qvars, bvars, cvars>>

\* run_risk: while output_queue.push(decision).is_err() { spin_loop() }
RkPush ==
    /\ rk_pc = "push"
    /\ push(q3, rk_decision).ok
    /\ q3' = push(q3, rk_decision).q
    /\ decisions' = Append(decisions, rk_decision)
    /\ rk_decision' = NoMessage
    /\ rk_pc' = "loop"
    /\ UNCHANGED <<q1, q2, mainvars, mdvars, stvars, risk_config, state,
                   signal_count, approved_count, rk_rejected_count, decided,
                   window_approved, gwvars, clock, fed, events>>
    /\ UNCHANGED <<qvars, bvars, cvars>>

\* run_gateway: while !shutdown.load(Relaxed)
GwLoop ==
    /\ gw_pc = "loop"
    /\ gw_pc' = IF shutdown THEN "done" ELSE "pop"
    /\ UNCHANGED <<q1, q2, q3, mainvars, mdvars, stvars, rkvars, decision_count,
                   sent_count, gw_rejected_count, sent, clock, fed, events>>
    /\ UNCHANGED <<qvars, bvars, cvars>>

\* run_gateway: if let Some(decision) = input_queue.pop() { decision_count += 1;
\* match decision { Approve => send_order_mock, sent_count += 1;
\* Reject => rejected_count += 1 } } else { spin_loop() }
GwPop ==
    /\ gw_pc = "pop"
    /\ LET r == pop(q3)
       IN  IF ~ r.some
             THEN UNCHANGED <<q3, decision_count, sent_count, gw_rejected_count,
                              sent>>
             ELSE /\ q3' = r.q
                  /\ decision_count' = decision_count + 1
                  /\ sent_count' =
                       sent_count + (IF r.value.type = "Approve" THEN 1 ELSE 0)
                  /\ gw_rejected_count' =
                       gw_rejected_count + (IF r.value.type = "Reject" THEN 1 ELSE 0)
                  /\ sent' = IF r.value.type = "Approve"
                               THEN Append(sent, r.value.order) ELSE sent
    /\ gw_pc' = "loop"
    /\ UNCHANGED <<q1, q2, mainvars, mdvars, stvars, rkvars, clock, fed, events>>
    /\ UNCHANGED <<qvars, bvars, cvars>>

MarketData == MdLoop \/ MdPush

Strategy == StLoop \/ StPop \/ StPush

Risk == RkLoop \/ RkPop \/ RkPush

Gateway == GwLoop \/ GwPop

PipelineNext ==
    \/ MainShutdown
    \/ MainJoin
    \/ MdLoop
    \/ MdPush
    \/ StLoop
    \/ StPop
    \/ StPush
    \/ RkLoop
    \/ RkPop
    \/ RkPush
    \/ GwLoop
    \/ GwPop

SpecPipelineInit == PipelineInit /\ QueueInit /\ BookInit /\ CallsInit

SpecPipeline == SpecPipelineInit /\ [][PipelineNext]_vars

\* Every thread that can take a step eventually takes one: the four stages run
\* on four pinned cores and never block.
FairSpecPipeline ==
    /\ SpecPipelineInit
    /\ [][PipelineNext]_vars
    /\ WF_vars(MarketData)
    /\ WF_vars(Strategy)
    /\ WF_vars(Risk)
    /\ WF_vars(Gateway)

(***************************************************************************)
(* SpecRisk: run_risk between a feeder that pushes any Buy, Sell or Cancel *)
(* signal into Q2 and run_gateway draining Q3, under the default and a     *)
(* tighter RiskConfig, while the cycle counter advances.                   *)
(***************************************************************************)
\* A configuration with both limits within reach of a few signals.
RiskConfig_tight ==
    [max_position |-> Quantity_new(20, 0), max_orders_per_second |-> 2]

RiskConfigs == {RiskConfig_default, RiskConfig_tight}

\* Quantities of the fed signals: negative, the strategy's 10, and 600.
SignalQtys == {Quantity_new(-10, 0), Quantity_new(10, 0), Quantity_new(600, 0)}

\* The order ids carried by the fed Cancels.
CancelIds == {7}

\* The signals fed: a Buy of every quantity, a Sell of every positive quantity
\* and a Cancel.
SignalInputs ==
    {Buy(DefaultSymbol, Price_new(1, 0), q) : q \in SignalQtys}
      \cup {Sell(DefaultSymbol, Price_new(1, 0), q) : q \in {x \in SignalQtys : x > 0}}
      \cup {Cancel(id) : id \in CancelIds}

\* The feeder: while queue.push(signal).is_err() { spin_loop() }
Feed ==
    /\ Len(fed) < MaxSignals
    /\ \E sig \in SignalInputs :
         /\ push(q2, sig).ok
         /\ q2' = push(q2, sig).q
         /\ fed' = Append(fed, sig)
    /\ UNCHANGED <<q1, q3, mainvars, mdvars, stvars, rkvars, gwvars, clock,
                   events>>
    /\ UNCHANGED <<qvars, bvars, cvars>>

\* Time passes: the next rdtsc() returns a later cycle count.
ClockAdvance ==
    /\ clock < MaxClockSteps * CycleStep
    /\ clock' = clock + CycleStep
    /\ UNCHANGED <<q1, q2, q3, mainvars, mdvars, stvars, rkvars, gwvars, fed,
                   events>>
    /\ UNCHANGED <<qvars, bvars, cvars>>

RiskNext ==
    \/ Feed
    \/ ClockAdvance
    \/ RkLoop
    \/ RkPop
    \/ RkPush
    \/ GwLoop
    \/ GwPop

SpecRiskInit ==
    /\ \E config \in RiskConfigs : PipelineStart(config)
    /\ QueueInit
    /\ BookInit
    /\ CallsInit

SpecRisk == SpecRiskInit /\ [][RiskNext]_vars

(***************************************************************************)
(* SpecStrategy: run_strategy between a feeder that pushes any Tick or     *)
(* BookUpdate into Q1 and run_risk and run_gateway behind Q2 and Q3, as in *)
(* main but for the source of the events.                                  *)
(***************************************************************************)
\* Three prices: PriceMid - PriceLow and PriceHigh - PriceMid are exactly
\* spread_threshold, PriceHigh - PriceLow is above it.
PriceLow == Price_new(100, 0)

PriceMid == Price_new(100, 5000)

PriceHigh == Price_new(101, 0)

\* One side of a BookUpdate: the given level on top, the rest empty.
EventLevels(level) ==
    [i \in 0 .. MAX_LEVELS - 1 |-> IF i = 0 THEN level ELSE PriceLevel_empty]

\* A BookUpdate with one level a side; price 0 stands for a side with no level.
BookUpdateOf(bid, ask) ==
    LET side(price) == IF price = 0 THEN PriceLevel_empty
                       ELSE PriceLevel_new(price, Quantity_new(100, 0))
    IN  BookUpdate(DefaultSymbol, EventLevels(side(bid)), EventLevels(side(ask)))

\* The events fed: ticks on both sides, and BookUpdates with a tight spread,
\* a tight spread on a higher bid, a wide spread, and bids only.
EventInputs ==
    { Tick(DefaultSymbol, PriceLow, Quantity_new(100, 0), "Buy"),
      Tick(DefaultSymbol, PriceMid, Quantity_new(100, 0), "Sell"),
      BookUpdateOf(PriceLow, PriceMid),
      BookUpdateOf(PriceMid, PriceHigh),
      BookUpdateOf(PriceLow, PriceHigh),
      BookUpdateOf(PriceLow, 0),
      Trade(DefaultSymbol, PriceMid, Quantity_new(100, 0)) }

\* The feeder: while queue.push(event).is_err() { spin_loop() }
FeedEvent ==
    /\ Len(events) < MaxEvents
    /\ \E event \in EventInputs :
         /\ push(q1, event).ok
         /\ q1' = push(q1, event).q
         /\ events' = Append(events, event)
    /\ UNCHANGED <<q2, q3, mainvars, mdvars, stvars, rkvars, gwvars, clock, fed>>
    /\ UNCHANGED <<qvars, bvars, cvars>>

StrategyNext ==
    \/ FeedEvent
    \/ StLoop
    \/ StPop
    \/ StPush
    \/ RkLoop
    \/ RkPop
    \/ RkPush
    \/ GwLoop
    \/ GwPop

SpecStrategyInit == PipelineInit /\ QueueInit /\ BookInit /\ CallsInit

SpecStrategy == SpecStrategyInit /\ [][StrategyNext]_vars

(***************************************************************************)
(* Properties of the SPSC queue (SpecQueue).                               *)
(***************************************************************************)
\* The value a slot holds when both halves agree.
Whole(v) == [lo |-> v, hi |-> v]

\* C1: the values returned by successful pops are, at every instant, a prefix of
\* the values accepted by successful pushes: nothing lost, duplicated, reordered
\* or torn.
C1_PopsArePrefixOfPushes ==
    /\ Len(popped) <= Len(pushed)
    /\ \A i \in 1 .. Len(popped) : popped[i] = Whole(pushed[i])

\* Every accepted value has been popped, both values occur, the buffer has been
\* lapped more than once and the tail counter has wrapped around the word.
C1_Witness ==
    /\ Len(pushed) = MaxPush
    /\ Len(popped) = MaxPush
    /\ Len(pushed) > 2 * Capacity
    /\ tail < Len(pushed)
    /\ \E i, j \in 1 .. Len(popped) : popped[i] # popped[j]

\* C2: the occupancy tail - head (wrapping) is within 0..Capacity in every state,
\* and so is the occupancy each side computes from the counters it loaded; push
\* returns Err exactly when the occupancy it observed is Capacity, pop returns
\* None exactly when the occupancy it observed is 0.
C2_OccupancyBounded ==
    /\ len(tail, head) \in 0 .. Capacity
    /\ p_result = "Err" => len(p_tail, p_head) = Capacity
    /\ (p_pc \in {"write_lo", "write_hi", "store_tail"} \/ p_result = "Ok")
          => len(p_tail, p_head) \in 0 .. Capacity - 1
    /\ c_result = "None" => len(c_tail, c_head) = 0
    /\ (c_pc \in {"read_lo", "read_hi", "store_head"} \/ c_result = "Some")
          => len(c_tail, c_head) \in 1 .. Capacity

\* The last push was refused on a full queue and, later, the last pop found the
\* queue empty.
C2_Witness ==
    /\ p_pc = "idle" /\ p_result = "Err"
    /\ c_pc = "idle" /\ c_result = "None"
    /\ Len(popped) >= Capacity

\* C3: while pop is reading the slot at head, that slot holds the complete value
\* pushed for the current lap and push is not writing it; while push is writing
\* the slot at tail, pop is not reading it.
C3_SlotHandshake ==
    /\ c_pc \in {"read_lo", "read_hi"} =>
          /\ Len(popped) < Len(pushed)
          /\ buffer[SlotIndex(c_head)] = Whole(pushed[Len(popped) + 1])
    /\ ~ ( /\ c_pc \in {"read_lo", "read_hi"}
           /\ p_pc \in {"write_lo", "write_hi"}
           /\ SlotIndex(c_head) = SlotIndex(p_tail) )

\* Pop is between the two halves of a slot it reads while push is between the
\* two halves of the neighbouring slot, on a buffer that has been lapped.
C3_Witness ==
    /\ c_pc = "read_hi"
    /\ p_pc = "write_hi"
    /\ Len(pushed) > Capacity

\* len() returns in this step.
LenReturns == l_pc = "load_head" /\ l_pc' = "idle"

\* No push and no pop was in progress at either load of the len() call that
\* returns in this step, and none returned a value in between.
LenQuiesced ==
    /\ l_seen.quiet /\ l_seen.pushed = Len(pushed) /\ l_seen.popped = Len(popped)
    /\ p_pc = "idle" /\ c_pc = "idle"

\* C21: every value len() returns lies in 0 .. capacity, also to a thread that
\* calls it while the producer and the consumer are pushing and popping; when
\* no push or pop is in progress it is the number of accepted pushes minus the
\* number of successful pops.
C21_LenWithinCapacity ==
    [][ LenReturns =>
          /\ l_result' \in 0 .. Capacity
          /\ LenQuiesced => l_result' = Len(pushed) - Len(popped)
      ]_vars

\* C32: with head and tail wrapping at the word size, the counters are the
\* numbers of accepted pushes and of successful pops modulo the word size, the
\* slot index of a counter plus one is the next slot (the first after the
\* last), also from the largest counter to 0, the occupancy by wrapping
\* subtraction is the number of values in the queue and within 0 .. capacity,
\* the values not yet popped lie in consecutive slots, and the pops return the
\* pushed values in order.
C32_CorrectAcrossOverflow ==
    /\ Capacity * 2 <= Word
    /\ tail = Len(pushed) % Word
    /\ head = Len(popped) % Word
    /\ \A c \in 0 .. Word - 1 :
          SlotIndex(wrapping_add(c, 1)) = (SlotIndex(c) % Capacity) + 1
    /\ wrapping_sub(tail, head) = Len(pushed) - Len(popped)
    /\ wrapping_sub(tail, head) \in 0 .. Capacity
    /\ \A i \in Len(popped) + 1 .. Len(pushed) :
          buffer[((i - 1) % Capacity) + 1] = Whole(pushed[i])
    /\ \A i \in 1 .. Len(popped) : popped[i] = Whole(pushed[i])

\* tail has wrapped past the word size and head has not: the queue is full
\* with tail numerically below head.
C32_Witness ==
    /\ Len(pushed) > Word
    /\ tail < head
    /\ wrapping_sub(tail, head) = Capacity

\* C33: only a step of push changes tail and only a step of pop changes head;
\* a push that returns Ok has moved tail forward by exactly one (modulo the
\* word size) and left head alone, a pop that returns Some has moved head
\* forward by exactly one and left tail alone, and a push that returns Err or a
\* pop that returns None has moved neither.
C33_CounterOwnership ==
    [][ /\ tail' # tail =>
              /\ p_pc = "store_tail" /\ p_pc' = "idle" /\ p_result' = "Ok"
              /\ tail' = wrapping_add(tail, 1)
              /\ c_pc' = c_pc
        /\ head' # head =>
              /\ c_pc = "store_head" /\ c_pc' = "idle" /\ c_result' = "Some"
              /\ head' = wrapping_add(head, 1)
              /\ p_pc' = p_pc
        /\ p_pc' # p_pc => head' = head
        /\ c_pc' # c_pc => tail' = tail
        /\ (p_pc # "idle" /\ p_pc' = "idle") =>
              tail' = IF p_result' = "Ok" THEN wrapping_add(tail, 1) ELSE tail
        /\ (c_pc # "idle" /\ c_pc' = "idle") =>
              head' = IF c_result' = "Some" THEN wrapping_add(head, 1) ELSE head
      ]_vars

\* A pop has returned Some and moved head while the producer, about to store
\* tail, still holds the head it loaded before.
C33_Witness ==
    /\ c_pc = "idle" /\ c_result = "Some"
    /\ p_pc = "store_tail" /\ p_head # head
    /\ Len(pushed) > 1

\* The largest number of steps a push at the given position still takes.
PushRemaining(pc) ==
    CASE pc = "idle" -> 0
      [] pc = "store_tail" -> 1
      [] pc = "write_hi" -> 2
      [] pc = "write_lo" -> 3
      [] pc = "load_head" -> 4

\* The largest number of steps a pop at the given position still takes.
PopRemaining(pc) ==
    CASE pc = "idle" -> 0
      [] pc = "store_head" -> 1
      [] pc = "read_hi" -> 2
      [] pc = "read_lo" -> 3
      [] pc = "load_tail" -> 4

\* C23: a push or pop that has started can take its next step in every state,
\* wherever the other thread stands, and every step brings it closer to its
\* return: no step waits for the other side and none goes back.  A call returns
\* Ok or Err, Some or None.
C23_WaitFree ==
    /\ [] ( /\ p_pc # "idle" => ENABLED PushSteps
            /\ c_pc # "idle" => ENABLED PopSteps
            /\ (p_pc = "idle" /\ Len(pushed) + Len(popped) > 0)
                  => p_result \in {"Ok", "Err", "none"}
            /\ c_pc = "idle" => c_result \in {"Some", "None", "none"} )
    /\ [][ /\ (p_pc # "idle" /\ p_pc' # p_pc)
                => PushRemaining(p_pc') < PushRemaining(p_pc)
           /\ (c_pc # "idle" /\ c_pc' # c_pc)
                => PopRemaining(c_pc') < PopRemaining(c_pc)
           /\ (p_pc # "idle" /\ p_pc' = "idle") => p_result' \in {"Ok", "Err"}
           /\ (c_pc # "idle" /\ c_pc' = "idle") => c_result' \in {"Some", "None"}
       ]_vars

\* A push found the queue full and returned Err while the consumer stood in the
\* middle of a pop, before its store to head.
C23_Witness ==
    /\ p_pc = "idle" /\ p_result = "Err"
    /\ c_pc = "store_head"
    /\ Len(pushed) = Len(popped) + Capacity

(***************************************************************************)
(* Properties of the calls of one caller (SpecCalls).                      *)
(***************************************************************************)
\* The calls i .. j are all pushes.
AllPushes(i, j) == \A k \in i .. j : calls[k].op = "push"

\* C17: on a queue constructed with any power-of-two capacity, as long as no pop
\* has been called the n-th push returns Ok exactly when n <= capacity and Err
\* from then on; when capacity or more pushes were followed by one pop, the
\* next push returns Ok.
C17_FullAfterCapacityPushes ==
    sq_pc = "ready" =>
        LET capacity == calls[1].arg
        IN  \A k \in 2 .. Len(calls) :
                /\ AllPushes(2, k) => (calls[k].ok <=> k - 1 <= capacity)
                /\ ( /\ k - 3 >= capacity
                     /\ AllPushes(2, k - 2)
                     /\ calls[k - 1].op = "pop"
                     /\ calls[k].op = "push" )
                      => calls[k].ok

\* Capacity pushes returned Ok, two more returned Err, a pop followed and the
\* push after it returned Ok.
C17_Witness ==
    /\ sq_pc = "ready"
    /\ Len(calls) = calls[1].arg + 5
    /\ AllPushes(2, Len(calls) - 2)
    /\ ~ calls[Len(calls) - 2].ok /\ ~ calls[Len(calls) - 3].ok
    /\ calls[Len(calls) - 1].op = "pop"
    /\ calls[Len(calls)].op = "push" /\ calls[Len(calls)].ok

\* C18: once the queue has come back to empty, every call returns what the same
\* call returns on a queue constructed fresh at that moment and called with the
\* same calls since.
C18_FreshAfterEmpty ==
    twin # NoQueue =>
        /\ Len(twin_calls) <= Len(calls)
        /\ \A i \in 1 .. Len(twin_calls) :
              twin_calls[i] = calls[Len(calls) - Len(twin_calls) + i]

\* The fresh queue was constructed after at least capacity push/pop cycles, and
\* the calls made since returned Ok, Err, Some and None; the counters of the
\* two queues differ.
C18_Witness ==
    /\ twin # NoQueue
    /\ Len(calls) - Len(twin_calls) - 1 >= 2 * Len(sq.buffer)
    /\ \E i, j, k, l \in 1 .. Len(twin_calls) :
          /\ twin_calls[i].op = "push" /\ twin_calls[i].ok
          /\ twin_calls[j].op = "push" /\ ~ twin_calls[j].ok
          /\ twin_calls[k].op = "pop" /\ twin_calls[k].ok
          /\ twin_calls[l].op = "pop" /\ ~ twin_calls[l].ok
    /\ sq.head # twin.head /\ sq.tail # twin.tail

\* C19: a push that returns Err hands back the value it was given and leaves
\* head, tail and every slot as they were; a pop that returns None leaves head,
\* tail and every slot as they were.
C19_BackPressureLeavesQueue ==
    [][ (Len(calls') = Len(calls) + 1 /\ Len(calls) >= 1)
          => LET call == calls'[Len(calls')]
             IN  /\ (call.op = "push" /\ ~ call.ok)
                      => (call.value = call.arg /\ sq' = sq)
                 /\ (call.op = "pop" /\ ~ call.ok) => sq' = sq
      ]_vars

\* A push was refused by a full queue whose slots all hold earlier values, and
\* later a pop found the queue empty.
C19_Witness ==
    /\ sq_pc = "ready"
    /\ \E i, j \in 2 .. Len(calls) :
          /\ i < j
          /\ calls[i].op = "push" /\ ~ calls[i].ok /\ calls[i].value = calls[i].arg
          /\ calls[j].op = "pop" /\ ~ calls[j].ok
    /\ \A i \in 1 .. Len(sq.buffer) : sq.buffer[i] # NoMessage

\* C20: SpscQueue::new(capacity) returns a queue, empty and with capacity slots,
\* exactly when capacity is a positive power of two; for 0 and for every other
\* capacity it panics and the caller holds no queue.
C20_NewNeedsPowerOfTwo ==
    Len(calls) >= 1 =>
        LET capacity == calls[1].arg
            power == \E k \in 0 .. WordBits - 1 : capacity = 2 ^ k
        IN  /\ calls[1].op = "new"
            /\ calls[1].ok <=> power
            /\ power => sq_pc \in {"ready", "dropped"} /\ Len(sq.buffer) = capacity
            /\ ~ power => sq_pc = "panicked" /\ sq = NoQueue /\ Len(calls) = 1

\* The constructor panicked on a capacity that is neither 0 nor a power of two.
C20_Witness ==
    /\ sq_pc = "panicked"
    /\ calls[1].arg > 0
    /\ calls[1].arg % 2 = 1
    /\ sq = NoQueue

\* The values of the calls of the given kind that returned Ok or Some, in call
\* order: what was pushed for "push", what was popped for "pop".
ValuesOf(op) ==
    LET done == SelectSeq(calls, LAMBDA c : c.op = op /\ c.ok)
    IN  [i \in 1 .. Len(done) |-> IF op = "push" THEN done[i].arg ELSE done[i].value]

\* C22: after drop head equals tail, and the values popped before the drop
\* followed by the values the drop took out are exactly the values accepted by
\* push, each once and in order.
C22_DropDrains ==
    sq_pc = "dropped" =>
        /\ sq.head = sq.tail
        /\ ValuesOf("pop") \o drained = ValuesOf("push")

\* A queue was dropped full, after earlier pops had taken values out.
C22_Witness ==
    /\ sq_pc = "dropped"
    /\ Len(drained) = Len(sq.buffer)
    /\ Len(drained) > 1
    /\ Len(ValuesOf("pop")) > 1

(***************************************************************************)
(* Properties of the pipeline (SpecPipeline, FairSpecPipeline).            *)
(***************************************************************************)
AllStagesDone ==
    md_pc = "done" /\ st_pc = "done" /\ rk_pc = "done" /\ gw_pc = "done"

\* C4: after shutdown is asserted and all four stages have exited and been
\* joined, the risk stage's approved_count equals the gateway's sent_count.
C4_ApprovedEqualsSent ==
    main_pc = "joined" => approved_count = sent_count

\* C5: at the moment a consuming stage (strategy, risk, gateway) leaves its poll
\* loop, its input queue is empty.
C5_DrainedAtExit ==
    [][ /\ (st_pc # "done" /\ st_pc' = "done") => queue_is_empty(q1')
        /\ (rk_pc # "done" /\ rk_pc' = "done") => queue_is_empty(q2')
        /\ (gw_pc # "done" /\ gw_pc' = "done") => queue_is_empty(q3') ]_vars

\* C6: once the shutdown flag is set, under fair scheduling of the threads all
\* four stages eventually exit their loops.
C6_ShutdownTerminates == shutdown ~> AllStagesDone

(***************************************************************************)
(* Properties of the risk stage (SpecRisk).                                *)
(***************************************************************************)
\* The positions in decisions of the Approve decisions.
ApproveAt == {i \in 1 .. Len(decisions) : decisions[i].type = "Approve"}

\* The positions in decisions of the Approve decisions of Buy and Sell signals
\* (the i-th decision pushed is the decision of the i-th signal handled).
OrderAt == {i \in ApproveAt : decided[i].type \in {"Buy", "Sell"}}

\* C9 as claimed: the ids of the Approve decisions pushed to Q3, in push order,
\* are 1, 2, 3, ... for every sequence of Buy, Sell and Cancel signals.
C9_Original ==
    \A i \in ApproveAt :
        decisions[i].order.id = Cardinality({j \in ApproveAt : j <= i})

\* C9, amended: the ids of the Approve decisions of Buy and Sell signals pushed
\* to Q3, in push order, are 1, 2, 3, ... whatever rejections and Cancels come in
\* between; the Approve of a Cancel carries the signal's order_id and takes no id.
C9_OrderIdsGapless ==
    /\ \A i \in OrderAt :
          decisions[i].order.id = Cardinality({j \in OrderAt : j <= i})
    /\ \A i \in ApproveAt \ OrderAt :
          decisions[i].order.id = decided[i].order_id

\* Three decisions were pushed: an order with id 1, a rejection or the Approve
\* of a Cancel, and then the order with id 2.
C9_Witness ==
    /\ Len(decisions) = 3
    /\ 1 \in OrderAt /\ 2 \notin OrderAt /\ 3 \in OrderAt
    /\ decisions[3].order.id = 2

\* Every Buy and Sell signal handled so far has a positive quantity.
AllQtyPositive ==
    \A i \in 1 .. Len(decided) :
        decided[i].type \in {"Buy", "Sell"} => decided[i].qty > 0

\* run_risk has just decided a signal in this step.
Decides == Len(decided') = Len(decided) + 1

\* C10: a Buy that is not rejected for the rate limit is rejected with
\* PositionLimitExceeded exactly when current_position + qty > max_position and
\* otherwise approved with the position raised by qty; as long as every handled
\* signal had a positive quantity, current_position never exceeds max_position.
C10_LongLimit ==
    /\ [] (AllQtyPositive => state.current_position <= risk_config.max_position)
    /\ [][ (/\ Decides
            /\ decided'[Len(decided')].type = "Buy"
            /\ ~ (rk_decision'.type = "Reject"
                    /\ rk_decision'.reason = "RateLimitExceeded"))
           => LET qty == decided'[Len(decided')].qty
                  over == state.current_position + qty > risk_config.max_position
              IN  IF over
                    THEN /\ rk_decision' =
                              Reject("PositionLimitExceeded", decided'[Len(decided')])
                         /\ state'.current_position = state.current_position
                    ELSE /\ rk_decision'.type = "Approve"
                         /\ state'.current_position = state.current_position + qty
       ]_vars

\* Only positive quantities were handled, the position stands exactly at
\* max_position, and the Buy handled last was rejected for the position limit.
C10_Witness ==
    /\ Len(decisions) = 3
    /\ AllQtyPositive
    /\ decided[3].type = "Buy"
    /\ decisions[3].type = "Reject"
    /\ decisions[3].reason = "PositionLimitExceeded"
    /\ state.current_position = risk_config.max_position

\* C11: a Sell that is not rejected for the rate limit is rejected with
\* PositionLimitExceeded exactly when current_position - qty < -max_position,
\* whatever max_position is configured, and otherwise approved with the position
\* lowered by qty; as long as every handled signal had a positive quantity,
\* current_position never falls below -max_position.
C11_SymmetricShortLimit ==
    /\ [] (AllQtyPositive => state.current_position >= - risk_config.max_position)
    /\ [][ (/\ Decides
            /\ decided'[Len(decided')].type = "Sell"
            /\ ~ (rk_decision'.type = "Reject"
                    /\ rk_decision'.reason = "RateLimitExceeded"))
           => LET qty == decided'[Len(decided')].qty
                  under == state.current_position - qty < - risk_config.max_position
              IN  IF under
                    THEN /\ rk_decision' =
                              Reject("PositionLimitExceeded", decided'[Len(decided')])
                         /\ state'.current_position = state.current_position
                    ELSE /\ rk_decision'.type = "Approve"
                         /\ state'.current_position = state.current_position - qty
       ]_vars

\* C12: since the last reset of the window run_risk has approved at most
\* max_orders_per_second Buy and Sell signals, and order_count_this_second is
\* that number; a Buy or Sell handled with the counter at max_orders_per_second
\* (after the reset test) is rejected with RateLimitExceeded; the counter goes
\* back to 0 only in a step that reads a cycle count more than the window past
\* last_reset_time.
C12_RateLimit ==
    /\ [] ( /\ window_approved <= risk_config.max_orders_per_second
            /\ state.order_count_this_second = window_approved )
    /\ [][ Decides =>
             LET signal == decided'[Len(decided')]
                 past == clock - state.last_reset_time > RateWindow
                 count == IF past THEN 0 ELSE state.order_count_this_second
             IN  /\ (signal.type \in {"Buy", "Sell"}
                       /\ count = risk_config.max_orders_per_second)
                      => /\ rk_decision' = Reject("RateLimitExceeded", signal)
                         /\ state'.order_count_this_second = count
                 /\ state'.order_count_this_second < state.order_count_this_second
                      => past
                 /\ state'.last_reset_time # state.last_reset_time => past
       ]_vars

\* Under max_orders_per_second = 2 two orders were approved in the first window
\* and the third signal, a Buy or Sell within the position limits, was rejected
\* for the rate limit although the cycle counter had advanced (not yet past the
\* window).
C12_Witness ==
    /\ Len(decisions) = 3
    /\ decisions[1].type = "Approve" /\ decisions[2].type = "Approve"
    /\ decisions[3] = Reject("RateLimitExceeded", decided[3])
    /\ decided[3].qty = Quantity_new(10, 0)
    /\ window_approved = risk_config.max_orders_per_second
    /\ state.last_reset_time = 0
    /\ clock > 0

\* run_risk has just decided a Cancel in this step.
DecidesCancel == Decides /\ decided'[Len(decided')].type = "Cancel"

\* The Approve of a Cancel: the signal's order_id on an Order with symbol 0,
\* zero price, zero quantity and side Buy.
CancelApproved ==
    LET signal == decided'[Len(decided')]
    IN  /\ rk_decision'.type = "Approve"
        /\ rk_decision'.order.id = signal.order_id
        /\ rk_decision'.order.price = 0
        /\ rk_decision'.order.qty = 0
        /\ approved_count' = approved_count + 1
        /\ rk_rejected_count' = rk_rejected_count

\* C13 as claimed: handling a Cancel yields that Approve in every risk state and
\* changes neither current_position, nor order_count_this_second, nor
\* next_order_id.
C13_Original ==
    [][ DecidesCancel =>
          /\ CancelApproved
          /\ state'.current_position = state.current_position
          /\ state'.next_order_id = state.next_order_id
          /\ state'.order_count_this_second = state.order_count_this_second
      ]_vars

\* C13, amended: handling a Cancel yields that Approve in every risk state and
\* changes neither current_position nor next_order_id; order_count_this_second
\* is unchanged unless the cycle count read for the Cancel is more than the
\* window past last_reset_time, in which case the window reset that precedes
\* the match sets it to 0.
C13_CancelBypasses ==
    [][ DecidesCancel =>
          /\ CancelApproved
          /\ state'.current_position = state.current_position
          /\ state'.next_order_id = state.next_order_id
          /\ state'.order_count_this_second =
                IF clock - state.last_reset_time > RateWindow
                  THEN 0 ELSE state.order_count_this_second
      ]_vars

\* A Cancel was approved with the counter at max_orders_per_second and the
\* position at max_position, and left both there.
C13_Witness ==
    /\ Len(decisions) = 3
    /\ decided[3].type = "Cancel"
    /\ decisions[3].type = "Approve"
    /\ decisions[3].order.id = decided[3].order_id
    /\ state.order_count_this_second = risk_config.max_orders_per_second
    /\ state.current_position = risk_config.max_position
    /\ state.next_order_id = 3

\* run_risk has just decided a Buy or a Sell in this step.
DecidesOrder == Decides /\ decided'[Len(decided')].type \in {"Buy", "Sell"}

\* order_count_this_second after the window-reset step of the signal decided in
\* this step.
CountAfterReset ==
    IF clock - state.last_reset_time > RateWindow THEN 0
    ELSE state.order_count_this_second

\* The signal decided in this step would take the position past a limit: above
\* max_position for a Buy, below the short limit for a Sell.
BreaksPositionLimit ==
    LET signal == decided'[Len(decided')]
    IN  IF signal.type = "Buy"
          THEN state.current_position + signal.qty > risk_config.max_position
          ELSE state.current_position - signal.qty < ShortLimit

\* C34: the rate limit is tested first: a Buy or Sell handled with the counter
\* at max_orders_per_second is rejected with RateLimitExceeded, also when it
\* breaks the position limit too, and a Reject with PositionLimitExceeded is
\* decided only with the counter below max_orders_per_second and the position
\* limit broken.
C34_RateLimitFirst ==
    [][ DecidesOrder =>
          LET signal == decided'[Len(decided')]
              rate == CountAfterReset >= risk_config.max_orders_per_second
          IN  /\ (rate /\ BreaksPositionLimit)
                    => rk_decision' = Reject("RateLimitExceeded", signal)
              /\ (rk_decision'.type = "Reject"
                    /\ rk_decision'.reason = "PositionLimitExceeded")
                    => (~ rate /\ BreaksPositionLimit)
              /\ (rk_decision'.type = "Reject"
                    /\ rk_decision'.reason = "RateLimitExceeded") => rate
      ]_vars

\* The third signal, a Buy that would take the position above max_position, was
\* handled with the counter at max_orders_per_second and rejected for the rate
\* limit.
C34_Witness ==
    /\ Len(decided) = 3 /\ rk_pc = "push"
    /\ decided[3].type = "Buy"
    /\ state.order_count_this_second = risk_config.max_orders_per_second
    /\ state.current_position + decided[3].qty > risk_config.max_position
    /\ rk_decision = Reject("RateLimitExceeded", decided[3])

\* C35: a rejected Buy or Sell leaves current_position and next_order_id as they
\* were and order_count_this_second as the window-reset step left it, and its
\* Reject carries the signal as it came; an approved Buy or Sell moves the
\* position by exactly its quantity (up for a Buy, down for a Sell), raises the
\* counter by one and takes exactly one order id, the one its Order carries.
C35_StateChangesOnlyOnPass ==
    [][ DecidesOrder =>
          LET signal == decided'[Len(decided')]
          IN  IF rk_decision'.type = "Reject"
                THEN /\ state'.current_position = state.current_position
                     /\ state'.order_count_this_second = CountAfterReset
                     /\ state'.next_order_id = state.next_order_id
                     /\ rk_decision'.original_signal = signal
                     /\ rk_decision'.reason
                           \in {"RateLimitExceeded", "PositionLimitExceeded"}
                     /\ rk_rejected_count' = rk_rejected_count + 1
                     /\ approved_count' = approved_count
                ELSE /\ rk_decision'.type = "Approve"
                     /\ state'.current_position =
                           IF signal.type = "Buy"
                             THEN state.current_position + signal.qty
                             ELSE state.current_position - signal.qty
                     /\ state'.order_count_this_second = CountAfterReset + 1
                     /\ state'.next_order_id = state.next_order_id + 1
                     /\ rk_decision'.order =
                           Order_new(state.next_order_id, signal.symbol,
                                     signal.price, signal.qty, signal.type)
                     /\ approved_count' = approved_count + 1
                     /\ rk_rejected_count' = rk_rejected_count
      ]_vars

\* An approved Sell, a Sell rejected for the position limit and an approved Buy
\* were handled: two ids are taken and the rejection moved nothing.
C35_Witness ==
    /\ Len(decisions) = 3
    /\ decided[1].type = "Sell" /\ decisions[1].type = "Approve"
    /\ decided[2].type = "Sell"
    /\ decisions[2] = Reject("PositionLimitExceeded", decided[2])
    /\ decided[3].type = "Buy" /\ decisions[3].type = "Approve"
    /\ decisions[3].order.id = 2
    /\ state.next_order_id = 3
    /\ state.current_position = decided[3].qty - decided[1].qty

(***************************************************************************)
(* Properties of the strategy stage and of the pipeline behind it          *)
(* (SpecStrategy).                                                         *)
(***************************************************************************)
\* Every queue is empty and no stage holds a message: all that was fed has
\* gone through.
Quiescent ==
    /\ queue_is_empty(q1) /\ queue_is_empty(q2) /\ queue_is_empty(q3)
    /\ st_pc # "push" /\ rk_pc # "push"

\* The events fed so far are BookUpdates with both sides populated, a spread
\* within spread_threshold and strictly increasing best-bid prices.
FedTightRisingBookUpdates ==
    /\ \A i \in 1 .. Len(events) :
          /\ events[i].type = "BookUpdate"
          /\ ~ is_empty(events[i].bids[0]) /\ ~ is_empty(events[i].asks[0])
          /\ events[i].asks[0].price - events[i].bids[0].price <= spread_threshold
    /\ \A i \in 1 .. Len(events) - 1 :
          events[i].bids[0].price < events[i + 1].bids[0].price

\* C14: when the pipeline has been fed BookUpdates with increasing best-bid
\* prices and a tight spread and has handled them all, the gateway has sent
\* exactly one order per BookUpdate, in feed order, with ids 1, 2, ..., each at
\* the best-bid price of its BookUpdate with quantity 10.
C14_OneApprovePerBookUpdate ==
    (FedTightRisingBookUpdates /\ Quiescent) =>
        /\ Len(sent) = Len(events)
        /\ \A i \in 1 .. Len(sent) :
              /\ sent[i].id = i
              /\ sent[i].price = events[i].bids[0].price
              /\ sent[i].qty = Quantity_new(10, 0)

\* run_strategy has just handled an event in this step.
HandlesEvent == event_count' = event_count + 1

\* Both cached sides are known and no more than spread_threshold apart.
TightSpread(bid, ask) ==
    bid.some /\ ask.some /\ ask.value - bid.value <= spread_threshold

\* C15: when run_strategy has handled an event, Tick or BookUpdate, and both
\* cached sides are known with ask - bid <= spread_threshold, it has one signal
\* of quantity 10 to push into Q2; when the spread is wider or a side is unknown
\* it has none.
C15_SignalOnTightSpread ==
    [][ HandlesEvent =>
          IF TightSpread(best_bid', best_ask')
            THEN /\ st_pc' = "push"
                 /\ st_signal'.type \in {"Buy", "Sell"}
                 /\ st_signal'.qty = Quantity_new(10, 0)
            ELSE /\ st_pc' = "loop"
                 /\ st_signal' = NoMessage
      ]_vars

\* C16: no two consecutive signals pushed into Q2 by run_strategy have the same
\* direction, whatever events it is fed.
C16_SignalsAlternate ==
    \A i \in 1 .. Len(signals) - 1 : signals[i].type # signals[i + 1].type

\* C31: at every instant the gateway has observed at most as many decisions as
\* run_risk pushed, run_risk has pushed at most as many decisions as run_strategy
\* pushed signals, and run_strategy has pushed at most as many signals as events
\* were pushed into Q1; no stage has put out more messages than it took in.
C31_NoAmplification ==
    /\ decision_count <= Len(decisions)
    /\ Len(decisions) <= Len(signals)
    /\ Len(signals) <= Len(events)
    /\ Len(signals) <= event_count /\ event_count <= Len(events)
    /\ Len(decisions) <= signal_count /\ signal_count <= Len(signals)
    /\ sent_count + gw_rejected_count = decision_count

\* The gateway has observed two decisions and Q3 is empty again, and the
\* strategy has put out fewer signals than the events it consumed.
C31_Witness ==
    /\ decision_count >= 2
    /\ Len(signals) < event_count
    /\ q3.head = q3.tail

\* C36: after run_strategy has handled a Tick with side Buy at price p its cached
\* best bid is p, after a Tick with side Sell at price p its cached best ask is
\* p, whatever was cached before; the cached value of the other side is as
\* before.
C36_TickUpdatesCachedSide ==
    [][ (HandlesEvent /\ events[event_count'].type = "Tick") =>
          LET event == events[event_count']
          IN  IF event.side = "Buy"
                THEN best_bid' = Some(event.price) /\ best_ask' = best_ask
                ELSE best_ask' = Some(event.price) /\ best_bid' = best_bid
      ]_vars

\* The events of a sequence that are not Trades, in order.
RECURSIVE WithoutTrades(_)
WithoutTrades(evs) ==
    IF evs = <<>> THEN <<>>
    ELSE IF Head(evs).type = "Trade" THEN WithoutTrades(Tail(evs))
    ELSE <<Head(evs)>> \o WithoutTrades(Tail(evs))

\* What a run_strategy started afresh has cached and has emitted after handling
\* the events from the given one on, having handled count events and emitted
\* the given signals before.
RECURSIVE StrategyRun(_, _, _, _, _)
StrategyRun(evs, count, bid, ask, emitted) ==
    IF evs = <<>> THEN [best_bid |-> bid, best_ask |-> ask, signals |-> emitted]
    ELSE LET o == strategy_on_event(Head(evs), count + 1, bid, ask)
         IN  StrategyRun(Tail(evs), count + 1, o.best_bid, o.best_ask,
                         IF o.signal = NoMessage THEN emitted
                         ELSE Append(emitted, o.signal))

\* run_strategy has handled every event fed so far and pushed every signal.
StrategyCaughtUp == event_count = Len(events) /\ st_pc # "push"

\* C37: Trades change nothing: when run_strategy has handled the events fed, its
\* cached best bid and ask and the signals it pushed, with their directions and
\* prices, are those of a run over the same events with the Trades taken out.
C37_TradesChangeNothing ==
    StrategyCaughtUp =>
        LET plain == StrategyRun(WithoutTrades(events), 0, None, None, <<>>)
        IN  /\ best_bid = plain.best_bid
            /\ best_ask = plain.best_ask
            /\ signals = plain.signals

(***************************************************************************)
(* Properties of the order book (SpecBook).                                *)
(***************************************************************************)
\* C7: after any sequence of update_level calls the populated bids are strictly
\* descending by price, the populated asks strictly ascending, and both depths
\* are at most MAX_LEVELS.
C7_SortedAndBounded ==
    /\ book.bid_depth \in 0 .. MAX_LEVELS
    /\ book.ask_depth \in 0 .. MAX_LEVELS
    /\ \A i, j \in 0 .. book.bid_depth - 1 :
          i < j => book.bids[i].price > book.bids[j].price
    /\ \A i, j \in 0 .. book.ask_depth - 1 :
          i < j => book.asks[i].price < book.asks[j].price

\* Both sides are full, a bid has been evicted or dropped, and a held ask was
\* removed and the side filled again.
C7_Witness ==
    /\ book.bid_depth = MAX_LEVELS
    /\ book.ask_depth = MAX_LEVELS
    /\ RefDepth(ref_bids) > MAX_LEVELS
    /\ ask_lost

\* The levels of one side of the unbounded book, best price first, cut to the
\* MAX_LEVELS best.
RefTop(ref, side) ==
    LET live == {p \in Prices : ref[p] # 0}
        Better(r, p) == IF side = "Buy" THEN r > p ELSE r < p
        Rank(p) == Cardinality({r \in live : Better(r, p)})
        n == IF Cardinality(live) < MAX_LEVELS THEN Cardinality(live) ELSE MAX_LEVELS
    IN  [i \in 0 .. n - 1 |->
            LET p == CHOOSE q \in live : Rank(q) = i
            IN  PriceLevel_new(p, ref[p])]

\* C8 as claimed: the populated bids (asks) are the MAX_LEVELS best levels of the
\* unbounded book after every sequence of updates.
C8_Original ==
    /\ bids(book) = RefTop(ref_bids, "Buy")
    /\ asks(book) = RefTop(ref_asks, "Sell")

\* C8, amended: every populated level is a level of the unbounded book, and the
\* populated bids (asks) are its MAX_LEVELS best levels as long as no held level
\* was removed from the side while the unbounded book held more than MAX_LEVELS
\* levels on it (an evicted or dropped level is not recalled).
C8_TopOfReferenceUntilLost ==
    /\ \A i \in 0 .. book.bid_depth - 1 :
          ref_bids[book.bids[i].price] = book.bids[i].qty /\ book.bids[i].qty # 0
    /\ \A i \in 0 .. book.ask_depth - 1 :
          ref_asks[book.asks[i].price] = book.asks[i].qty /\ book.asks[i].qty # 0
    /\ ~ bid_lost => bids(book) = RefTop(ref_bids, "Buy")
    /\ ~ ask_lost => asks(book) = RefTop(ref_asks, "Sell")

\* A bid was evicted from the full bid side, which still is the top of the
\* unbounded book; on the ask side a held level was removed after an eviction.
C8_Witness ==
    /\ RefDepth(ref_bids) > MAX_LEVELS
    /\ book.bid_depth = MAX_LEVELS
    /\ book.bids[0].price = MAX_LEVELS
    /\ ~ bid_lost
    /\ ask_lost
    /\ book.ask_depth > 0

\* The array and the depth of one side of a book, and the slot of a held price.
SideLevels(b, side) == IF side = "Buy" THEN b.bids ELSE b.asks

SideDepth(b, side) == IF side = "Buy" THEN b.bid_depth ELSE b.ask_depth

SlotOf(b, side, price) ==
    CHOOSE i \in 0 .. SideDepth(b, side) - 1 : SideLevels(b, side)[i].price = price

\* The two books agree on the side opposite to the given one.
OtherSideSame(b, nb, side) ==
    IF side = "Buy"
      THEN nb.asks = b.asks /\ nb.ask_depth = b.ask_depth
      ELSE nb.bids = b.bids /\ nb.bid_depth = b.bid_depth

\* C24: update_level(side, p, 0) on a book that holds a level at p takes that
\* level out, moves every worse level one slot toward the front and lowers the
\* depth by one; on a book that holds no level at p it changes nothing.
C24_ZeroQuantityRemoves ==
    \A side \in Sides, price \in Prices :
        LET nb == update_level(book, side, price, 0)
            was == SideLevels(book, side)
            now == SideLevels(nb, side)
            depth == SideDepth(book, side)
        IN  IF Holds(book, side, price)
              THEN LET pos == SlotOf(book, side, price)
                   IN  /\ SideDepth(nb, side) = depth - 1
                       /\ \A i \in 0 .. pos - 1 : now[i] = was[i]
                       /\ \A i \in pos .. depth - 2 : now[i] = was[i + 1]
                       /\ \A i \in depth .. MAX_LEVELS - 1 : now[i] = was[i]
                       /\ ~ Holds(nb, side, price)
                       /\ OtherSideSame(book, nb, side)
              ELSE nb = book

\* A held bid has been removed from the bid side, which has a free slot again,
\* and the full ask side holds a level with a worse level behind it.
C24_Witness ==
    /\ bid_lost
    /\ book.bid_depth = MAX_LEVELS - 1
    /\ book.ask_depth = MAX_LEVELS
    /\ ~ ask_lost

\* C25: update_level(side, p, q) with q # 0 on a book that holds a level at p
\* changes the quantity of that level and nothing else: both depths, the slot of
\* the level and every other level of either side stay as they were.
C25_ReplaceChangesQuantityOnly ==
    \A side \in Sides, price \in Prices, qty \in Qtys \ {0} :
        Holds(book, side, price) =>
            LET pos == SlotOf(book, side, price)
            IN  update_level(book, side, price, qty) =
                  IF side = "Buy" THEN [book EXCEPT !.bids[pos].qty = qty]
                  ELSE [book EXCEPT !.asks[pos].qty = qty]

\* Each side holds two levels with different quantities, the worse one with the
\* larger quantity on the ask side and with the smaller one on the bid side.
C25_Witness ==
    /\ book.bid_depth > 1 /\ book.ask_depth > 1
    /\ book.bids[0].qty = 2 /\ book.bids[1].qty = 1
    /\ book.asks[0].qty = 1 /\ book.asks[1].qty = 2

\* C26: update_level(side, p, q) with q # 0 at a price the full side does not
\* hold leaves the book unchanged when every held level is better than p;
\* otherwise the now level takes its sorted slot, the levels from that slot on
\* move one slot back in their order, the worst held level is gone and the depth
\* is still MAX_LEVELS.
C26_InsertIntoFullSide ==
    \A side \in Sides, price \in Prices, qty \in Qtys \ {0} :
        LET nb == update_level(book, side, price, qty)
            was == SideLevels(book, side)
            now == SideLevels(nb, side)
            Better(r) == IF side = "Buy" THEN r > price ELSE r < price
            pos == Cardinality({i \in 0 .. MAX_LEVELS - 1 : Better(was[i].price)})
        IN  (SideDepth(book, side) = MAX_LEVELS /\ ~ Holds(book, side, price)) =>
              IF pos >= MAX_LEVELS THEN nb = book
              ELSE /\ SideDepth(nb, side) = MAX_LEVELS
                   /\ \A i \in 0 .. pos - 1 : now[i] = was[i]
                   /\ now[pos] = PriceLevel_new(price, qty)
                   /\ \A i \in pos + 1 .. MAX_LEVELS - 1 : now[i] = was[i - 1]
                   /\ ~ Holds(nb, side, was[MAX_LEVELS - 1].price)
                   /\ OtherSideSame(book, nb, side)

\* The full ask side holds the best price of the model after a worse ask was
\* evicted or dropped, and the full bid side has dropped or evicted a level too.
C26_Witness ==
    /\ book.ask_depth = MAX_LEVELS
    /\ book.asks[0].price = -1
    /\ ref_asks[MAX_LEVELS] # 0
    /\ ~ Holds(book, "Sell", MAX_LEVELS)
    /\ book.bid_depth = MAX_LEVELS
    /\ RefDepth(ref_bids) > MAX_LEVELS

\* C27: every slot at an index >= depth holds PriceLevel::empty() and no slot
\* below depth is empty.
C27_EmptyBeyondDepth ==
    \A side \in Sides :
        /\ \A i \in SideDepth(book, side) .. MAX_LEVELS - 1 :
              SideLevels(book, side)[i] = PriceLevel_empty
        /\ \A i \in 0 .. SideDepth(book, side) - 1 :
              ~ is_empty(SideLevels(book, side)[i])

\* A held ask was removed after the ask side had been full, the ask side is
\* empty again, and the bid side holds one level before a free slot.
C27_Witness ==
    /\ ask_lost
    /\ book.ask_depth = 0
    /\ book.bid_depth = 1
    /\ MAX_LEVELS > 1

\* Every live bid of the unbounded book is priced strictly below every live ask.
CrossedFree ==
    \A p, r \in Prices : (ref_bids[p] # 0 /\ ref_asks[r] # 0) => p < r

\* C28: spread() is None exactly when a side is empty; with both sides populated
\* it is Some(best ask - best bid), and that difference is >= 0 whenever the
\* live bids are all priced below the live asks.
C28_SpreadNonNegative ==
    /\ OrderBook_spread(book) = None <=> (book.bid_depth = 0 \/ book.ask_depth = 0)
    /\ (book.bid_depth > 0 /\ book.ask_depth > 0) =>
          /\ OrderBook_spread(book) = Some(book.asks[0].price - book.bids[0].price)
          /\ CrossedFree => OrderBook_spread(book).value >= 0

\* Both sides are full, no bid is priced at or above an ask, and the best ask is
\* one above the best bid.
C28_Witness ==
    /\ CrossedFree
    /\ book.bid_depth = MAX_LEVELS
    /\ book.ask_depth = MAX_LEVELS
    /\ OrderBook_spread(book) = Some(1)

\* C29 as claimed: with both sides populated, twice the raw mid price is the sum
\* of the raw best ask and best bid or one below it.
C29_Original ==
    (book.bid_depth > 0 /\ book.ask_depth > 0) =>
        LET sum == book.asks[0].price + book.bids[0].price
        IN  OrderBook_mid_price(book).value * 2 \in {sum - 1, sum}

\* C29, amended: with both sides populated the raw mid price is half the sum of
\* the raw best ask and best bid, rounded toward zero: twice the mid is the sum
\* or one below it for a sum >= 0, and the sum or one above it for a sum < 0.
\* With a side empty mid_price() is None.
C29_MidTruncatesTowardZero ==
    IF book.bid_depth > 0 /\ book.ask_depth > 0
      THEN LET sum == book.asks[0].price + book.bids[0].price
               mid == OrderBook_mid_price(book)
           IN  /\ mid.some
               /\ sum >= 0 => mid.value * 2 \in {sum - 1, sum}
               /\ sum < 0 => mid.value * 2 \in {sum, sum + 1}
      ELSE OrderBook_mid_price(book) = None

\* The best bid and the best ask have a negative odd sum.
C29_Witness ==
    /\ book.bid_depth > 0 /\ book.ask_depth > 0
    /\ book.asks[0].price + book.bids[0].price = -1

\* C39: update_level(Buy, ..) leaves the asks array and the ask depth exactly as
\* they were, and update_level(Sell, ..) leaves the bids array and the bid depth
\* exactly as they were, for every price and quantity, whether the call
\* inserts, replaces, removes, evicts or does nothing.
C39_OtherSideUntouched ==
    \A side \in Sides, price \in Prices, qty \in Qtys :
        OtherSideSame(book, update_level(book, side, price, qty), side)

\* The bid side is full while the ask side holds a single level of quantity 2,
\* at a price the bid side holds too.
C39_Witness ==
    /\ book.bid_depth = MAX_LEVELS
    /\ book.ask_depth = 1
    /\ book.asks[0].qty = 2
    /\ Holds(book, "Buy", book.asks[0].price)

\* C40: the book after two consecutive update_level calls with the same side,
\* price and quantity equals the book after the first of them, whether the
\* first call inserts, replaces, removes, evicts the worst level of a full
\* side, is dropped, or does nothing.
C40_UpdateIdempotent ==
    \A side \in Sides, price \in Prices, qty \in Qtys :
        LET once == update_level(book, side, price, qty)
        IN  update_level(once, side, price, qty) = once

\* Both sides are full; some bid not held would evict the worst bid, some ask
\* not held would be dropped, and a held bid would get another quantity.
C40_Witness ==
    /\ book.bid_depth = MAX_LEVELS
    /\ book.ask_depth = MAX_LEVELS
    /\ \E price \in Prices :
          /\ ~ Holds(book, "Buy", price)
          /\ update_level(book, "Buy", price, 1) # book
    /\ \E price \in Prices :
          /\ ~ Holds(book, "Sell", price)
          /\ update_level(book, "Sell", price, 1) = book
    /\ \E price \in Prices :
          /\ Holds(book, "Buy", price)
          /\ update_level(book, "Buy", price, 2) # book

(***************************************************************************)
(* Properties of the latency tracker (SpecTracker).                        *)
(***************************************************************************)
\* The cycle counts of the record calls started since the tracker was
\* constructed or last reset: how many, their sum, the smallest and the largest.
RECURSIVE SumUpTo(_)
SumUpTo(c) == IF c < 0 THEN 0 ELSE c * recorded[c] + SumUpTo(c - 1)

RECURSIVE CountUpTo(_)
CountUpTo(c) == IF c < 0 THEN 0 ELSE recorded[c] + CountUpTo(c - 1)

Samples == {c \in Cycles : recorded[c] > 0}

\* C38: when every record call has returned, stats() reports the number of
\* calls as count, the smallest and the largest recorded cycle count as min and
\* max, and the sum divided by count, rounded down, as avg, whatever the
\* interleaving of the calls; with nothing recorded, also after a reset, it
\* reports 0 for all four.
C38_NoSampleLost ==
    (\A t \in Threads : t_pc[t] = "idle") =>
        stats(tracker) =
          IF Samples = {} THEN [count |-> 0, min |-> 0, max |-> 0, avg |-> 0]
          ELSE [count |-> CountUpTo(MaxCycles),
                min |-> CHOOSE c \in Samples : \A d \in Samples : c <= d,
                max |-> CHOOSE c \in Samples : \A d \in Samples : c >= d,
                avg |-> SumUpTo(MaxCycles) \div CountUpTo(MaxCycles)]

\* After a reset both threads have recorded again and returned; the cycle
\* counts differ and their sum is not a multiple of their number.
C38_Witness ==
    /\ \A t \in Threads : t_pc[t] = "idle" /\ t_calls[t] = MaxRecords
    /\ resets = 1
    /\ CountUpTo(MaxCycles) >= 2
    /\ SumUpTo(MaxCycles) % CountUpTo(MaxCycles) # 0
    /\ tracker.min < tracker.max

(***************************************************************************)
(* Properties of the Quantity operators (SpecArith).                       *)
(***************************************************************************)
\* C30: Quantity arithmetic is exact: a + b and a - b have the raw value
\* a.raw + b.raw and a.raw - b.raw, and a * b stands for the exact product of
\* the two decimal values, raw a.raw * b.raw / SCALE with no remainder dropped.
C30_ArithmeticExact ==
    /\ arith_op = "add" => arith_out = lhs + rhs
    /\ arith_op = "sub" => arith_out = lhs - rhs
    /\ arith_op = "mul" => arith_out * SCALE = lhs * rhs

====
